---- MODULE Spec2Model ----
(***************************************************************************)
(* State-machine model of the m_chat_b realtime signaling gateway.         *)
(*                                                                         *)
(*   Spec     the current gateway, src/src/unified.gateway.ts: two sockets *)
(*            and every interleaving of the room lifecycle requests        *)
(*   SpecRoom the same gateway: one room, three sockets that chat          *)
(*   SpecChat the same gateway driven through the long-chat scenario       *)
(*            (one sender, one message per millisecond)                    *)
(*   SpecJoin the IP-throttled gateway, src/unnamed/part_000 lines 1-347:  *)
(*            joining, within one throttling window                        *)
(*   SpecRL   the IP-throttled gateway: one key against the clock          *)
(*   SpecFile the current gateway: the file transfers of one room          *)
(*   SpecSend the current gateway: the validation of sendFile              *)
(*   SpecP2P  the peer-to-peer gateway, src/unnamed/part_005: sendFile     *)
(*   SpecSignal the current gateway: the relay of signalling events        *)
(*   SpecCall the current gateway: endCall and the requests after it       *)
(*   SpecDrop the current gateway: disconnects during a file transfer      *)
(*   SpecTouch the current gateway: room activity against the clock        *)
(*   SpecSweep the current gateway: the transfer janitor, with fairness    *)
(*   SpecCluster the gateway with the shared store, src/unnamed/part_003:  *)
(*            two processes, one socket each, one room                     *)
(*   SpecRace the same gateway: two sockets of one process join at once    *)
(*   SpecLimit the same gateway: one socket's join counter                 *)
(*   SpecFault the same gateway: store calls that fail                     *)
(*   SpecExpire the same gateway: the inactivity sweep                     *)
(*   SpecIdle the current gateway: signalling and chunks against the sweep *)
(*   SpecLegacy the two-party gateway, src/src/chat.gateway.ts             *)
(*                                                                         *)
(* Socket ids are strings, room codes are decimal digit strings modelled   *)
(* as sequences of digits, Date.now() is the variable now (milliseconds).  *)
(***************************************************************************)
EXTENDS Integers, Sequences, FiniteSets, TLC

VARIABLES
    rooms,            \* this.rooms: code -> Room
    roomLastActivity, \* this.roomLastActivity: code -> ms
    channels,         \* socket.io adapter rooms: channel name -> socket ids
    conn,             \* per socket id: "open" or "closed"
    now,              \* the last value Date.now() returned
    ipTracking,       \* this.ipTracking (part_000): ip -> IPTracker
    resp,             \* the last handler call and what it returned
    emitted,          \* the events the last handler call emitted, in order
    fileTransfers,    \* this.fileTransfers: transfer id -> FileTransfer
    timers,           \* the pending setTimeout(..., 100) callbacks, oldest first
    issued,           \* how many transfer ids handleSendFile has made up
    completions,      \* transfer id -> fileTransferComplete events emitted for it
    nodes,            \* part_003: gateway process -> its rooms and roomLastActivity
    redis,            \* part_003: the shared store: room snapshots and join counters
    wire,             \* part_003: per process, the store commands sent and not yet run
    joins,            \* part_003: socket id -> its joinRoom call awaiting the store
    chat              \* chat.gateway.ts: temporaryRooms and the pending expiry timers

vars == <<rooms, roomLastActivity, channels, conn, now, ipTracking, resp, emitted,
          fileTransfers, timers, issued, completions, nodes, redis, wire, joins, chat>>

\* what a handler of a gateway without the shared store leaves alone
clusterVars == <<nodes, redis, wire, joins>>

\* what a handler that starts and completes no transfer leaves alone
transferVars == <<timers, issued, completions>>

----------------------------------------------------------------------------
(* Bounds of the model *)

MaxStored == 1       \* messages a room of SpecRoom stores
MaxSends == 102      \* accepted messages in a run of SpecChat
MaxMembers == 3      \* SpecJoin: entries a member list grows to
MaxJumps == 2        \* SpecRL: how many times the clock jumps ahead
MaxTransfers == 1    \* SpecFile: sendFile requests that start a transfer
MaxChunks == 3       \* SpecFile: fileChunk events a transfer accepts
MaxSweeps == 1       \* SpecFile: transfer timeouts the clock advances by
MaxTicks == 1        \* SpecTouch: milliseconds the clock advances by

----------------------------------------------------------------------------
(* Program constants *)

MAX_MESSAGE_LENGTH == 5000
MAX_MESSAGES_PER_ROOM == 100
ROOM_INACTIVITY_TIMEOUT == 30 * 60 * 1000

Clients == {"a", "b", "c"}
\* the gateway processes behind the shared store (part_003)
Procs == {"A", "B"}
RoomTypes == {"text", "video", "voice"}

\* JavaScript's undefined for an optional field, and a present value
Undefined == <<>>
Defined(x) == <<x>>
IsDefined(v) == v # Undefined
ValueOf(v) == v[1]

----------------------------------------------------------------------------
(* Room codes *)

RECURSIVE toString(_)
\* Number.prototype.toString() of a non-negative integer, as its digits
toString(n) == IF n < 10 THEN <<n>> ELSE Append(toString(n \div 10), n % 10)

RECURSIVE ToNumber(_)
\* the numeric value of a digit string (the order `for (code in this.rooms)` uses)
ToNumber(s) == IF Len(s) = 0 THEN 0
               ELSE 10 * ToNumber(SubSeq(s, 1, Len(s) - 1)) + s[Len(s)]

\* the values Math.floor(Math.random() * 900000) is sampled at: both ends of
\* 0 .. 899999
RandomDraws == {0, 899999}

CodeOfDraw(k) == toString(100000 + k)

generateCode_noRetry == {CodeOfDraw(k) : k \in RandomDraws}

\* generateCode(): the codes the do-while loop can return, i.e. the sampled
\* codes that are not keys of this.rooms (the loop draws again on a live code)
generateCode == {CodeOfDraw(k) : k \in RandomDraws} \ DOMAIN rooms

\* the codes a client may name in a request: every sampled code and one
\* string no room can have
RequestCodes == {CodeOfDraw(k) : k \in RandomDraws} \cup {<<0>>}

----------------------------------------------------------------------------
(* Sequences and maps *)

Range(s) == {s[i] : i \in DOMAIN s}

\* Array.prototype.includes
Includes(s, x) == x \in Range(s)

\* Array.prototype.filter(id => id !== x)
Without(s, x) == SelectSeq(s, LAMBDA y : y # x)

\* Array.prototype.slice(-n) for n > 0
SliceLast(s, n) == IF Len(s) <= n THEN s ELSE SubSeq(s, Len(s) - n + 1, Len(s))

\* delete map[k]
Delete(f, k) == [x \in DOMAIN f \ {k} |-> f[x]]

\* map[k] = v / Map.prototype.set
Put(f, k, v) == [x \in DOMAIN f \cup {k} |-> IF x = k THEN v ELSE f[x]]

RECURSIVE SortedCodes(_)
\* the keys of an object with integer-like keys, in the order for-in visits them
SortedCodes(S) ==
    IF S = {} THEN <<>>
    ELSE LET m == CHOOSE x \in S : \A y \in S : ToNumber(x) <= ToNumber(y)
         IN  <<m>> \o SortedCodes(S \ {m})

----------------------------------------------------------------------------
(* Emitting *)

Event(name, to, data) == [event |-> name, to |-> to, data |-> data]

ServerTo_nobody(ch, channel) == {}

\* this.server.to(channel): every socket that joined the channel
ServerTo(ch, channel) == IF channel \in DOMAIN ch THEN ch[channel] ELSE {}

\* client.join(code)
Join(ch, c, code) == Put(ch, code, ServerTo(ch, code) \cup {c})

Err(msg) == [error |-> msg]
\* resp keeps which handler ran and what it returned; action formulas name the
\* caller and the arguments
Call(op, c, code, arg, ret) == [op |-> op, ret |-> ret]
IsError(r) == "error" \in DOMAIN r.ret
Succeeded(r) == "success" \in DOMAIN r.ret

----------------------------------------------------------------------------
(* validateAndSanitizeMessage: a text is a sequence of one-character strings *)

RECURSIVE TrimStart(_)
TrimStart(s) == IF Len(s) > 0 /\ s[1] = " " THEN TrimStart(Tail(s)) ELSE s

RECURSIVE TrimEnd(_)
TrimEnd(s) == IF Len(s) > 0 /\ s[Len(s)] = " "
              THEN TrimEnd(SubSeq(s, 1, Len(s) - 1)) ELSE s

\* String.prototype.trim
Trim(s) == TrimEnd(TrimStart(s))

\* the index of the first x in s at or after position i, 0 when there is none
IndexFrom(s, x, i) ==
    IF \E j \in i .. Len(s) : s[j] = x
    THEN CHOOSE j \in i .. Len(s) : s[j] = x /\ \A k \in i .. (j - 1) : s[k] # x
    ELSE 0

RECURSIVE StripTags(_)
\* .replace(/<[^>]*>/g, ''): every leftmost "<" up to the next ">" is removed
StripTags(s) ==
    LET open  == IndexFrom(s, "<", 1)
        close == IF open = 0 THEN 0 ELSE IndexFrom(s, ">", open + 1)
    IN  IF open = 0 \/ close = 0 THEN s
        ELSE SubSeq(s, 1, open - 1) \o StripTags(SubSeq(s, close + 1, Len(s)))

\* RegExp.prototype.test for a literal pattern
Contains(s, pat) ==
    \E i \in 1 .. (Len(s) - Len(pat) + 1) : SubSeq(s, i, i + Len(pat) - 1) = pat

\* the literal patterns of dangerousPatterns that the sampled alphabet can spell
dangerousPatterns == { <<"e", "v", "a", "l", "(">>, <<"<", "f", "o", "r", "m">> }

\* The script, javascript:, on...= and style= replacements are the identity on
\* every sampled text (none contains ":" or "="), so they are not spelled out.
validateAndSanitizeMessage(text) ==
    IF text = <<>> THEN [isValid |-> FALSE, error |-> "Message must be a non-empty string"]
    ELSE LET trimmed == Trim(text) IN
      IF Len(trimmed) = 0 THEN [isValid |-> FALSE, error |-> "Message cannot be empty"]
      ELSE IF Len(trimmed) > MAX_MESSAGE_LENGTH
      THEN [isValid |-> FALSE, error |-> "Message too long (max 5000 characters)"]
      ELSE LET sanitized == StripTags(trimmed) IN
        IF \E pat \in dangerousPatterns : Contains(sanitized, pat)
        THEN [isValid |-> FALSE, error |-> "Message contains potentially dangerous content"]
        ELSE [isValid |-> TRUE, sanitizedText |-> sanitized]

\* the texts clients send
Texts == { <<" ", "h", "i", " ">>, <<"<", "b", ">", "h", "i">>,
           <<" ">>, <<>>, <<"<", "f", "o", "r", "m">> }

----------------------------------------------------------------------------
(* The current gateway: src/src/unified.gateway.ts *)

\* expectedType of the universal joinRoom handler (no third argument)
NoType == "universal"

\* the expectedType handleJoinRoom, handleJoinVideoRoom and handleJoinVoiceRoom pass
JoinHandlers == {NoType, "video", "voice"}

audioDefaults ==
    [echoCancellation |-> TRUE, noiseSuppression |-> TRUE,
     autoGainControl |-> TRUE, sampleRate |-> 48000]

\* the Room literal createRoom stores
NewRoom(c, type) ==
    [creator |-> c, users |-> <<c>>, type |-> type,
     messages |-> IF type = "text" THEN Defined(<<>>) ELSE Undefined,
     audioSettings |-> IF type = "voice" THEN Defined(audioDefaults) ELSE Undefined]

\* room.messages || []
MessagesOf(room) == IF IsDefined(room.messages) THEN ValueOf(room.messages) ELSE <<>>

\* updateRoomActivity(code) at Date.now() = t
updateRoomActivity(code, t) == Put(roomLastActivity, code, t)

\* the userJoined / userLeft broadcast and, for voice rooms, the userCount one
MemberEvents(name, to, c, room, users) ==
    <<Event(name, to, [userId |-> c, totalUsers |-> Len(users)])>>
    \o (IF room.type = "voice"
        THEN <<Event("userCount", to, [count |-> Len(users)])>> ELSE <<>>)

createRoom(c, type, t) ==
    /\ conn[c] = "open" /\ t >= now
    /\ \E code \in generateCode :
         /\ rooms' = Put(rooms, code, NewRoom(c, type))
         /\ roomLastActivity' = updateRoomActivity(code, t)
         /\ channels' = Join(channels, c, code)
         /\ resp' = Call("createRoom", c, code, type, [code |-> code])
    /\ now' = t
    /\ emitted' = <<>>
    /\ UNCHANGED <<conn, ipTracking, fileTransfers, transferVars, clusterVars, chat>>

\* room.users after joinRoom's membership step
joinedUsers(room, c) ==
    IF ~Includes(room.users, c) THEN Append(room.users, c) ELSE room.users

joinRoom(c, code, expectedType, t) ==
    /\ conn[c] = "open" /\ t >= now
    /\ IF code \notin DOMAIN rooms
       THEN /\ resp' = Call("joinRoom", c, code, expectedType, Err("Room not found"))
            /\ emitted' = <<>>
            /\ UNCHANGED <<rooms, roomLastActivity, channels, now>>
       ELSE IF expectedType # NoType /\ rooms[code].type # expectedType
       THEN /\ resp' = Call("joinRoom", c, code, expectedType, Err("Wrong room type"))
            /\ emitted' = <<>>
            /\ UNCHANGED <<rooms, roomLastActivity, channels, now>>
       ELSE LET room  == rooms[code]
                users == joinedUsers(room, c)
                ch    == Join(channels, c, code)
            IN  /\ rooms' = [rooms EXCEPT ![code].users = users]
                /\ channels' = ch
                /\ roomLastActivity' = updateRoomActivity(code, t)
                /\ now' = t
                /\ emitted' = MemberEvents("userJoined", ServerTo(ch, code), c, room, users)
                /\ resp' = Call("joinRoom", c, code, expectedType,
                                [success |-> TRUE, messages |-> MessagesOf(room),
                                 totalUsers |-> Len(users), roomType |-> room.type])
    /\ UNCHANGED <<conn, ipTracking, fileTransfers, transferVars, clusterVars, chat>>

\* room.messages after handleSendMessage stored the message
storedMessages_unbounded(messages, message) == Append(messages, message)

storedMessages(messages, message) ==
    LET pushed == Append(messages, message)
    IN  IF Len(pushed) > MAX_MESSAGES_PER_ROOM
        THEN SliceLast(pushed, MAX_MESSAGES_PER_ROOM) ELSE pushed

handleSendMessage(c, code, text, t) ==
    /\ conn[c] = "open" /\ t >= now
    /\ IF code \notin DOMAIN rooms \/ ~Includes(rooms[code].users, c)
       THEN /\ resp' = Call("sendMessage", c, code, text, Err("Not in room"))
            /\ emitted' = <<>>
            /\ UNCHANGED <<rooms, roomLastActivity, now>>
       ELSE IF Len(rooms[code].users) < 2
       THEN /\ resp' = Call("sendMessage", c, code, text, Err("Need at least 2 users to chat"))
            /\ emitted' = <<>>
            /\ UNCHANGED <<rooms, roomLastActivity, now>>
       ELSE LET validation == validateAndSanitizeMessage(text) IN
         IF ~validation.isValid
         THEN /\ resp' = Call("sendMessage", c, code, text, Err(validation.error))
              /\ emitted' = <<>>
              /\ UNCHANGED <<rooms, roomLastActivity, now>>
         ELSE LET room    == rooms[code]
                  message == [sender |-> c, text |-> validation.sanitizedText,
                              timestamp |-> t]
              IN  /\ rooms' = IF IsDefined(room.messages)
                              THEN [rooms EXCEPT ![code].messages =
                                      Defined(storedMessages(ValueOf(room.messages), message))]
                              ELSE rooms
                  /\ roomLastActivity' = updateRoomActivity(code, t)
                  /\ now' = t
                  /\ emitted' = <<Event("newMessage", ServerTo(channels, code), message)>>
                  /\ resp' = Call("sendMessage", c, code, text, [success |-> TRUE])
    /\ UNCHANGED <<channels, conn, ipTracking, fileTransfers, transferVars, clusterVars, chat>>

NoData == [none |-> TRUE]

destroyRoom_keep(rm, code) == rm

\* destroyRoom(code): this.rooms after the delete, and the broadcast that follows
destroyRoom(rm, code) == Delete(rm, code)
destroyEvents(ch, code) == <<Event("userDisconnected", ServerTo(ch, code), NoData)>>

removeMember_noDestroy(rm, ch, c, code) ==
    LET users == Without(rm[code].users, c)
    IN  [rooms |-> [rm EXCEPT ![code].users = users],
         emitted |-> MemberEvents("userLeft", ServerTo(ch, code), c, rm[code], users)]

\* the body of `if (room.users.includes(client.id))` shared by leaveRoom and
\* handleDisconnect: the member is filtered out, and the room is destroyed when
\* nobody is left, else the others are told
removeMember(rm, ch, c, code) ==
    LET room     == rm[code]
        users    == Without(room.users, c)
        filtered == [rm EXCEPT ![code].users = users]
    IN  IF Len(users) = 0
        THEN [rooms |-> destroyRoom(filtered, code), emitted |-> destroyEvents(ch, code)]
        ELSE [rooms |-> filtered,
              emitted |-> MemberEvents("userLeft", ServerTo(ch, code), c, room, users)]

leaveRoom_anyone(c, code, op, before) ==
    /\ conn[c] = "open"
    /\ IF code \in DOMAIN rooms
       THEN LET out == removeMember(rooms, channels, c, code)
            IN  /\ rooms' = out.rooms
                /\ emitted' = before \o out.emitted
       ELSE /\ rooms' = rooms
            /\ emitted' = before
    /\ resp' = Call(op, c, code, "", [success |-> TRUE])
    /\ UNCHANGED <<roomLastActivity, channels, conn, now, ipTracking, fileTransfers, transferVars, clusterVars, chat>>

\* leaveRoom(client, code), after the events `before` its caller emitted
leaveRoom(c, code, op, before) ==
    /\ conn[c] = "open"
    /\ IF code \in DOMAIN rooms /\ Includes(rooms[code].users, c)
       THEN LET out == removeMember(rooms, channels, c, code)
            IN  /\ rooms' = out.rooms
                /\ emitted' = before \o out.emitted
       ELSE /\ rooms' = rooms
            /\ emitted' = before
    /\ resp' = Call(op, c, code, "", [success |-> TRUE])
    /\ UNCHANGED <<roomLastActivity, channels, conn, now, ipTracking, fileTransfers, transferVars, clusterVars, chat>>

\* handleLeaveRoom and handleLeaveVideoRoom
handleLeaveRoom(c, code) == leaveRoom(c, code, "leaveRoom", <<>>)

handleLeaveVoiceRoom(c, code) ==
    leaveRoom(c, code, "leaveVoiceRoom",
              IF code \in DOMAIN rooms /\ rooms[code].type = "voice"
              THEN <<Event("callEnded", ServerTo(channels, code), [endedBy |-> c])>>
              ELSE <<>>)

handleEndCall(c, code) ==
    /\ conn[c] = "open"
    /\ emitted' = <<Event("callEnded", ServerTo(channels, code), [endedBy |-> c])>>
                  \o destroyEvents(channels, code)
    /\ rooms' = destroyRoom(rooms, code)
    /\ resp' = Call("endCall", c, code, "", [success |-> TRUE])
    /\ UNCHANGED <<roomLastActivity, channels, conn, now, ipTracking, fileTransfers, transferVars, clusterVars, chat>>

\* the socket has left every channel by the time its disconnect event is handled
LeaveAll(ch, c) ==
    LET kept == {k \in DOMAIN ch : ch[k] \ {c} # {}}
    IN  [k \in kept |-> ch[k] \ {c}]

RECURSIVE disconnectFrom(_, _, _, _)
\* the `for (const code in this.rooms)` loop of handleDisconnect over the codes
\* still to visit
disconnectFrom(codes, rm, ch, c) ==
    IF codes = <<>> THEN [rooms |-> rm, emitted |-> <<>>]
    ELSE LET code == Head(codes)
             step == IF Includes(rm[code].users, c)
                     THEN removeMember(rm, ch, c, code)
                     ELSE [rooms |-> rm, emitted |-> <<>>]
             rest == disconnectFrom(Tail(codes), step.rooms, ch, c)
         IN  [rooms |-> rest.rooms, emitted |-> step.emitted \o rest.emitted]

withoutTransfersOf_senderOnly(c) ==
    LET gone == {id \in DOMAIN fileTransfers : fileTransfers[id].sender = c}
    IN  [id \in DOMAIN fileTransfers \ gone |-> fileTransfers[id]]

\* this.fileTransfers after handleDisconnect deleted the transfers the socket
\* sends or receives
withoutTransfersOf(c) ==
    LET gone == {id \in DOMAIN fileTransfers :
                   fileTransfers[id].sender = c \/ fileTransfers[id].receiver = c}
    IN  [id \in DOMAIN fileTransfers \ gone |-> fileTransfers[id]]

handleDisconnect(c) ==
    /\ conn[c] = "open"
    /\ conn' = [conn EXCEPT ![c] = "closed"]
    /\ fileTransfers' = withoutTransfersOf(c)
    /\ channels' = LeaveAll(channels, c)
    /\ LET out == disconnectFrom(SortedCodes(DOMAIN rooms), rooms, LeaveAll(channels, c), c)
       IN  /\ rooms' = out.rooms
           /\ emitted' = out.emitted
    /\ resp' = Call("disconnect", c, <<>>, "", NoData)
    /\ UNCHANGED <<roomLastActivity, now, ipTracking, transferVars, clusterVars, chat>>

\* whether cleanupInactiveRooms removes the room at Date.now() = t
isInactive(code, t) ==
    LET lastActivity == IF code \in DOMAIN roomLastActivity
                        THEN roomLastActivity[code] ELSE 0
    IN  Len(rooms[code].users) = 0 \/ t - lastActivity > ROOM_INACTIVITY_TIMEOUT

cleanupInactiveRooms(t) ==
    /\ t >= now
    /\ LET removed == {code \in DOMAIN rooms : isInactive(code, t)}
       IN  /\ rooms' = [code \in DOMAIN rooms \ removed |-> rooms[code]]
           /\ roomLastActivity' =
                [code \in DOMAIN roomLastActivity \ removed |-> roomLastActivity[code]]
    /\ now' = t
    /\ resp' = Call("cleanupInactiveRooms", "", <<>>, "", NoData)
    /\ emitted' = <<>>
    /\ UNCHANGED <<channels, conn, ipTracking, fileTransfers, transferVars, clusterVars, chat>>

----------------------------------------------------------------------------
(* Spec: the room lifecycle of the current gateway, two sockets, every       *)
(* interleaving of their requests, all within one millisecond               *)

\* what resp holds before any handler ran
NoCall == Call("none", "", <<>>, "", NoData)

\* every sampled socket has connected; handleConnection changes no gateway field
Init ==
    /\ rooms = <<>>
    /\ roomLastActivity = <<>>
    /\ channels = <<>>
    /\ conn = [c \in Clients |-> "open"]
    /\ now = 0
    /\ ipTracking = <<>>
    /\ resp = NoCall
    /\ emitted = <<>>
    /\ fileTransfers = <<>>
    /\ timers = <<>>
    /\ issued = 0
    /\ completions = <<>>
    /\ nodes = [p \in Procs |-> [rooms |-> <<>>, roomLastActivity |-> <<>>]]
    /\ redis = [rooms |-> <<>>, counters |-> <<>>]
    /\ wire = [p \in Procs |-> <<>>]
    /\ joins = <<>>
    /\ chat = [temporaryRooms |-> <<>>, timeouts |-> <<>>, handles |-> 0]

Pair == {"a", "b"}

Next ==
    \/ \E c \in Pair, type \in RoomTypes : createRoom(c, type, now)
    \/ \E c \in Pair, code \in RequestCodes, type \in JoinHandlers :
         joinRoom(c, code, type, now)
    \/ \E c \in Pair, code \in RequestCodes : handleLeaveRoom(c, code)
    \/ \E c \in Pair, code \in RequestCodes : handleLeaveVoiceRoom(c, code)
    \/ \E c \in Pair, code \in RequestCodes : handleEndCall(c, code)
    \/ \E c \in Pair : handleDisconnect(c)

Spec == Init /\ [][Next]_vars

SixDigits(code) ==
    /\ Len(code) = 6
    /\ \A i \in 1 .. 6 : code[i] \in 0 .. 9
    /\ ToNumber(code) \in 100000 .. 999999

\* C1: every createRoom returns a 6-digit numeric string in 100000..999999 that
\* was the code of no live room when the call was made; the call adds exactly
\* that room and leaves every other live room as it was, so each live code
\* maps to one room.
C1_CreateRoomReturnsFreshCode ==
    [][resp'.op = "createRoom" =>
         LET code == resp'.ret.code
         IN  /\ SixDigits(code)
             /\ code \notin DOMAIN rooms
             /\ DOMAIN rooms' = DOMAIN rooms \cup {code}
             /\ \A other \in DOMAIN rooms : rooms'[other] = rooms[other]
             /\ rooms'[code].users = <<rooms'[code].creator>>]_vars

\* a room was created while another room was live
C1_Witness ==
    /\ resp.op = "createRoom"
    /\ resp.ret.code = CodeOfDraw(899999)
    /\ DOMAIN rooms = {CodeOfDraw(0), CodeOfDraw(899999)}

\* C2: between two operations no live room has an empty member list.
C2_NoEmptyLiveRoom ==
    \A code \in DOMAIN rooms : Len(rooms[code].users) >= 1

\* a disconnect took the last member out of a room, which was destroyed
C2_Witness ==
    /\ resp.op = "disconnect"
    /\ \E i \in DOMAIN emitted : emitted[i].event = "userDisconnected"
    /\ \E code \in DOMAIN roomLastActivity : code \notin DOMAIN rooms

\* C5: a leaveRoom by a member deletes the room exactly when that member was
\* the last one; otherwise the room stays, with the other members in it. So
\* once every member has left, the room is gone.
C5_LastLeaveDeletesRoom ==
    [][resp'.op = "leaveRoom" =>
       \A c \in Pair, code \in RequestCodes :
         (/\ code \in DOMAIN rooms
          /\ Includes(rooms[code].users, c)
          /\ handleLeaveRoom(c, code))
         => IF Range(rooms[code].users) = {c}
            THEN code \notin DOMAIN rooms'
            ELSE /\ code \in DOMAIN rooms'
                 /\ Range(rooms'[code].users) = Range(rooms[code].users) \ {c}]_vars

\* both sockets were in the room, and the last leaveRoom destroyed it
C5_Witness ==
    /\ resp.op = "leaveRoom"
    /\ rooms = <<>>
    /\ \E code \in DOMAIN channels : channels[code] = Pair
    /\ \E i \in DOMAIN emitted : emitted[i].event = "userDisconnected"

----------------------------------------------------------------------------
(* SpecRoom: the one room a process of the current gateway has created,     *)
(* and three sockets that join it, chat in it and leave it                  *)

\* the room has not yet stored MaxStored messages
CanStore(code) ==
    code \in DOMAIN rooms => Len(MessagesOf(rooms[code])) < MaxStored

NextRoom ==
    \/ \E c \in Clients, type \in RoomTypes :
         roomLastActivity = <<>> /\ createRoom(c, type, now)
    \/ \E c \in Clients, code \in RequestCodes, type \in JoinHandlers :
         joinRoom(c, code, type, now)
    \/ \E c \in Clients, code \in RequestCodes, text \in Texts :
         CanStore(code) /\ handleSendMessage(c, code, text, now)
    \/ \E c \in Clients, code \in RequestCodes : handleLeaveRoom(c, code)

SpecRoom == Init /\ [][NextRoom]_vars

\* C7: sendMessage for a missing room or by a non-member returns 'Not in
\* room'; by a member of a room with fewer than 2 members it returns 'Need at
\* least 2 users to chat'; both store and broadcast nothing. With 2 or more
\* members a valid message is broadcast as newMessage to all members.
C7_SendMessageGuards ==
    [][resp'.op = "sendMessage" =>
       \A c \in Clients, code \in RequestCodes, text \in Texts :
         handleSendMessage(c, code, text, now) =>
           IF code \notin DOMAIN rooms \/ c \notin Range(rooms[code].users)
           THEN resp'.ret = Err("Not in room") /\ rooms' = rooms /\ emitted' = <<>>
           ELSE IF Len(rooms[code].users) < 2
           THEN /\ resp'.ret = Err("Need at least 2 users to chat")
                /\ rooms' = rooms /\ emitted' = <<>>
           ELSE validateAndSanitizeMessage(text).isValid =>
                  /\ Succeeded(resp')
                  /\ Len(emitted') = 1
                  /\ emitted'[1].event = "newMessage"
                  /\ emitted'[1].data.sender = c
                  /\ Range(rooms[code].users) \subseteq emitted'[1].to]_vars

\* a message was accepted and went to all three members
C7_Witness ==
    /\ resp.op = "sendMessage" /\ Succeeded(resp)
    /\ Len(emitted) = 1 /\ emitted[1].event = "newMessage"
    /\ emitted[1].to = Clients
    /\ \E code \in DOMAIN rooms : Len(MessagesOf(rooms[code])) = 1

----------------------------------------------------------------------------
(* SpecChat: socket a opens a text room, b joins, a sends one message per   *)
(* millisecond, and c joins at some point                                   *)

ChatText == <<" ", "h", "i", " ">>

NextChat ==
    \/ rooms = <<>> /\ roomLastActivity = <<>> /\ createRoom("a", "text", now)
    \/ \E c \in {"b", "c"}, code \in DOMAIN rooms : joinRoom(c, code, NoType, now)
    \/ \E code \in DOMAIN rooms :
         now < MaxSends /\ handleSendMessage("a", code, ChatText, now + 1)

SpecChat == Init /\ [][NextChat]_vars

\* the k-th message accepted in the scenario: the clock moves by one with
\* every accepted message and with nothing else
Accepted(k) == [sender |-> "a", text |-> <<"h", "i">>, timestamp |-> k]

Min(x, y) == IF x <= y THEN x ELSE y

\* the buffer of a room that accepted n messages, under a cap
LastAccepted(n, cap) == [i \in 1 .. Min(n, cap) |-> Accepted(n - Min(n, cap) + i)]

\* C8 as stated, with the cap of 50: the buffer never holds more than 50
\* messages and is the last min(n, 50) accepted ones.
C8_BufferCappedAt50 ==
    \A code \in DOMAIN rooms : MessagesOf(rooms[code]) = LastAccepted(now, 50)

\* C8, amended: the cap is MAX_MESSAGES_PER_ROOM = 100. After n accepted
\* sends the buffer is the last min(n, 100) accepted messages in send order,
\* a joinRoom returns exactly that buffer, and each accepted send broadcasts
\* its own message, so the broadcasts come in acceptance order.
C8_BufferHoldsLastCap ==
    \A code \in DOMAIN rooms :
      /\ Len(MessagesOf(rooms[code])) <= MAX_MESSAGES_PER_ROOM
      /\ MessagesOf(rooms[code]) = LastAccepted(now, MAX_MESSAGES_PER_ROOM)
      /\ (resp.op = "joinRoom" /\ Succeeded(resp))
           => resp.ret.messages = LastAccepted(now, MAX_MESSAGES_PER_ROOM)
      /\ (resp.op = "sendMessage" /\ Succeeded(resp))
           => /\ Len(emitted) = 1
              /\ emitted[1].event = "newMessage"
              /\ emitted[1].data = Accepted(now)

\* more messages than the cap were accepted, then the third socket joined and
\* was handed the buffer without the oldest ones
C8_Witness ==
    /\ now > MAX_MESSAGES_PER_ROOM
    /\ resp.op = "joinRoom" /\ Succeeded(resp)
    /\ resp.ret.totalUsers = 3
    /\ Len(resp.ret.messages) = MAX_MESSAGES_PER_ROOM
    /\ resp.ret.messages[1].timestamp = now - MAX_MESSAGES_PER_ROOM + 1

----------------------------------------------------------------------------
(* The IP-throttled gateway: src/unnamed/part_000, lines 1-347. Its         *)
(* generateCode, Room literal, leaveRoom and destroyRoom are word for word  *)
(* those of the current gateway; it keeps no roomLastActivity.              *)

\* client.handshake.address of the sampled sockets: a and b connect from the
\* same address
address == [c \in Clients |-> IF c = "c" THEN "10.0.0.2" ELSE "10.0.0.1"]

getClientIP(c) == address[c]

\* the IPTracker checkRateLimit creates for an address it has not seen
NewTracker(t) ==
    [codeGenerations |-> [count |-> 0, resetTime |-> t + 60000],
     joinAttempts |-> [count |-> 0, resetTime |-> t + 60000],
     blockedUntil |-> Undefined]

isBlocked_never(tracker, t) == FALSE

\* tracker.blockedUntil && now < tracker.blockedUntil
isBlocked(tracker, t) ==
    IsDefined(tracker.blockedUntil) /\ t < ValueOf(tracker.blockedUntil)

maxCount_swapped(type) == IF type = "generation" THEN 3 ELSE 5

\* const maxCount = type === 'generation' ? 5 : 3
maxCount(type) == IF type = "generation" THEN 5 ELSE 3

\* checkRateLimit(ip, type) at Date.now() = t: whether the request is allowed,
\* and this.ipTracking afterwards
checkRateLimit(ip, type, t) ==
    LET tracking == IF ip \notin DOMAIN ipTracking
                    THEN Put(ipTracking, ip, NewTracker(t)) ELSE ipTracking
        tracker  == tracking[ip]
    IN  IF isBlocked(tracker, t)
        THEN [allowed |-> FALSE, ipTracking |-> tracking]
        ELSE
          LET field == IF type = "generation" THEN "codeGenerations" ELSE "joinAttempts"
              limit    == IF t > tracker[field].resetTime
                          THEN [count |-> 0, resetTime |-> t + 60000]
                          ELSE tracker[field]
          IN  IF limit.count >= maxCount(type)
              THEN [allowed |-> FALSE,
                    ipTracking |->
                      [tracking EXCEPT ![ip] =
                         [tracker EXCEPT ![field] = limit,
                                         !.blockedUntil = IF type = "join"
                                                          THEN Defined(t + 600000)
                                                          ELSE @]]]
              ELSE [allowed |-> TRUE,
                    ipTracking |->
                      [tracking EXCEPT ![ip] =
                         [tracker EXCEPT ![field] =
                            [count |-> limit.count + 1, resetTime |-> limit.resetTime]]]]

RateLimitExceeded == Err("Rate limit exceeded. Please try again later.")
TooManyFailedAttempts == Err("Too many failed attempts. Please try again later.")

createRoom_ip(c, type, t) ==
    /\ conn[c] = "open" /\ t >= now
    /\ LET limit == checkRateLimit(getClientIP(c), "generation", t)
       IN  /\ ipTracking' = limit.ipTracking
           /\ IF ~limit.allowed
              THEN /\ resp' = Call("createRoom", c, <<>>, type, RateLimitExceeded)
                   /\ UNCHANGED <<rooms, channels>>
              ELSE \E code \in generateCode :
                     /\ rooms' = Put(rooms, code, NewRoom(c, type))
                     /\ channels' = Join(channels, c, code)
                     /\ resp' = Call("createRoom", c, code, type, [code |-> code])
    /\ now' = t
    /\ emitted' = <<>>
    /\ UNCHANGED <<roomLastActivity, conn, fileTransfers, transferVars, clusterVars, chat>>

joinRoom_ip(c, code, expectedType, t) ==
    /\ conn[c] = "open" /\ t >= now
    /\ IF code \notin DOMAIN rooms
       THEN LET limit == checkRateLimit(getClientIP(c), "join", t)
            IN  /\ ipTracking' = limit.ipTracking
                /\ now' = t
                /\ resp' = Call("joinRoom", c, code, expectedType,
                                IF ~limit.allowed THEN TooManyFailedAttempts
                                ELSE Err("Room not found"))
                /\ emitted' = <<>>
                /\ UNCHANGED <<rooms, channels>>
       ELSE LET room  == rooms[code]
                users == Append(room.users, c)
                ch    == Join(channels, c, code)
            IN  /\ rooms' = [rooms EXCEPT ![code].users = users]
                /\ channels' = ch
                /\ emitted' = MemberEvents("userJoined", ServerTo(ch, code), c, room, users)
                /\ resp' = Call("joinRoom", c, code, expectedType,
                                [success |-> TRUE, messages |-> MessagesOf(room),
                                 totalUsers |-> Len(users)])
                /\ UNCHANGED <<now, ipTracking>>
    /\ UNCHANGED <<roomLastActivity, conn, fileTransfers, transferVars, clusterVars, chat>>

----------------------------------------------------------------------------
(* SpecJoin: the IP-throttled gateway within one millisecond; one socket    *)
(* opens the first room of the process, and two sockets of one address join *)
(* and leave it                                                             *)

CanJoin(code) == code \in DOMAIN rooms => Len(rooms[code].users) < MaxMembers

NextJoin ==
    \/ \E c \in Pair, type \in RoomTypes :
         channels = <<>> /\ createRoom_ip(c, type, now)
    \/ \E c \in Pair, code \in RequestCodes, type \in RoomTypes :
         CanJoin(code) /\ joinRoom_ip(c, code, type, now)
    \/ \E c \in Pair, code \in RequestCodes : handleLeaveRoom(c, code)

SpecJoin == Init /\ [][NextJoin]_vars

\* C4: a joinVideoRoom or joinVoiceRoom that names a room of another kind
\* returns 'Wrong room type' and leaves the member list and the broadcasts
\* as they were.
C4_KindMismatchRejected ==
    [][resp'.op = "joinRoom" =>
       \A c \in Pair, code \in DOMAIN rooms, type \in {"video", "voice"} :
         (rooms[code].type # type /\ joinRoom_ip(c, code, type, now))
         => /\ resp'.ret = Err("Wrong room type")
            /\ rooms' = rooms
            /\ emitted' = <<>>]_vars

\* C6: no socket id is twice in a member list, and the totalUsers a join
\* returns is the number of distinct members.
C6_NoDuplicateMembers ==
    /\ \A code \in DOMAIN rooms :
         Cardinality(Range(rooms[code].users)) = Len(rooms[code].users)
    /\ (resp.op = "joinRoom" /\ Succeeded(resp))
         => \E code \in DOMAIN rooms :
              resp.ret.totalUsers = Cardinality(Range(rooms[code].users))

----------------------------------------------------------------------------
(* SpecRL: the IP-throttled gateway and one socket that opens a text room,  *)
(* leaves it and guesses codes, its requests arriving at once, a window     *)
(* later or a block later                                                   *)

\* how many times the clock has jumped to reach n
Jumps(n) == (n \div 600000) + ((n % 600000) \div 60001)

\* Date.now() of the next request: the same millisecond, the first one past
\* a window, or the one a block later
TimesRL == {t \in {now, now + 60001, now + 600000} : Jumps(t) <= MaxJumps}

NextRL ==
    \/ \E t \in TimesRL : rooms = <<>> /\ createRoom_ip("a", "text", t)
    \/ \E code \in RequestCodes \ DOMAIN rooms, t \in TimesRL :
         joinRoom_ip("a", code, "text", t)
    \/ \E code \in DOMAIN rooms : handleLeaveRoom("a", code)

SpecRL == Init /\ [][NextRL]_vars

\* the key of the socket of SpecRL
Key == getClientIP("a")

\* what the key has used of a budget in the window that holds at time t
UsedAt(field, t) ==
    IF Key \notin DOMAIN ipTracking \/ t > ipTracking[Key][field].resetTime
    THEN 0 ELSE ipTracking[Key][field].count

\* whether the key is under hard block at time t
BlockedAt(t) ==
    /\ Key \in DOMAIN ipTracking
    /\ IsDefined(ipTracking[Key].blockedUntil)
    /\ t < ValueOf(ipTracking[Key].blockedUntil)

\* a step in which the socket asked to join a code no room has
FailedJoinStep ==
    \E code \in RequestCodes \ DOMAIN rooms, type \in RoomTypes, t \in TimesRL :
      joinRoom_ip("a", code, type, t)

CreateRoomStep ==
    \E type \in RoomTypes, t \in TimesRL : createRoom_ip("a", type, t)

\* C9: within one window the first 5 createRoom requests of a key are allowed
\* and the next is rejected without creating a room; past the window's reset
\* time the count starts again at 0 and createRoom is allowed.
C9_GenerationFixedWindow ==
    [][(resp'.op = "createRoom" /\ CreateRoomStep)
         => IF UsedAt("codeGenerations", now') < 5
            THEN /\ "code" \in DOMAIN resp'.ret
                 /\ ipTracking'[Key].codeGenerations.count
                      = UsedAt("codeGenerations", now') + 1
            ELSE resp'.ret = RateLimitExceeded /\ rooms' = rooms]_vars

\* C10: a failed join past the ceiling of 3 in a window puts the key under
\* hard block for 10 minutes; while now < blockedUntil every failed join is
\* rejected, also after the join window has reset, and the block stays as it
\* is; once the block has expired, failed joins are answered 'Room not found'
\* again and counted, up to the ceiling.
C10_HardBlockAfterFailedJoins ==
    [][(resp'.op = "joinRoom" /\ FailedJoinStep)
         => IF BlockedAt(now')
            THEN /\ resp'.ret = TooManyFailedAttempts
                 /\ ipTracking'[Key].blockedUntil = ipTracking[Key].blockedUntil
            ELSE IF UsedAt("joinAttempts", now') >= 3
            THEN /\ resp'.ret = TooManyFailedAttempts
                 /\ ipTracking'[Key].blockedUntil = Defined(now' + 600000)
            ELSE /\ resp'.ret = Err("Room not found")
                 /\ ipTracking'[Key].joinAttempts.count
                      = UsedAt("joinAttempts", now') + 1]_vars

\* the block of the first millisecond has expired, and the key has failed to
\* join three more times since
C10_Witness ==
    /\ resp.op = "joinRoom"
    /\ resp.ret = Err("Room not found")
    /\ ipTracking[Key].blockedUntil = Defined(600000)
    /\ now >= 600000
    /\ ipTracking[Key].joinAttempts.count = 3

\* C11: while the key of a socket is under hard block, every join of that
\* socket is rejected, whether the code names a room or not, and no member
\* list changes.
C11_BlockedKeyCannotJoin ==
    [][resp'.op = "joinRoom" =>
       \A c \in Pair, code \in RequestCodes, type \in RoomTypes :
         (/\ getClientIP(c) \in DOMAIN ipTracking
          /\ isBlocked(ipTracking[getClientIP(c)], now)
          /\ joinRoom_ip(c, code, type, now))
         => IsError(resp') /\ rooms' = rooms]_vars

\* C12: a createRoom is rejected only when the key has used the 5 room
\* generations of its window, whatever joins the key has attempted, and it
\* leaves the join budget of the key as it was.
C12_GenerationIndependentOfJoins ==
    [][(resp'.op = "createRoom" /\ CreateRoomStep)
         => /\ resp'.ret = RateLimitExceeded
                 => UsedAt("codeGenerations", now') >= 5
            /\ Key \in DOMAIN ipTracking
                 => ipTracking'[Key].joinAttempts = ipTracking[Key].joinAttempts]_vars

----------------------------------------------------------------------------
(* File transfers of the current gateway. File names and MIME types are     *)
(* sequences of one-character strings; a transfer id, which the code makes  *)
(* up from the socket id, the clock and a random suffix and never reads     *)
(* back, is the number of the sendFile that made it.                        *)

MAX_FILE_SIZE == 100 * 1024 * 1024
CHUNK_SIZE == 64 * 1024
TRANSFER_TIMEOUT == 5 * 60 * 1000

Upper == <<"A", "B", "C", "D", "E", "F", "G", "H", "I", "J", "K", "L", "M",
           "N", "O", "P", "Q", "R", "S", "T", "U", "V", "W", "X", "Y", "Z">>
Lower == <<"a", "b", "c", "d", "e", "f", "g", "h", "i", "j", "k", "l", "m",
           "n", "o", "p", "q", "r", "s", "t", "u", "v", "w", "x", "y", "z">>

\* the lower-case letter of each upper-case one
lowerOf == [ch \in Range(Upper) |-> Lower[CHOOSE k \in 1 .. 26 : Upper[k] = ch]]

\* String.prototype.toLowerCase
toLowerCase(s) ==
    [i \in 1 .. Len(s) |-> IF s[i] \in DOMAIN lowerOf THEN lowerOf[s[i]] ELSE s[i]]

\* String.prototype.lastIndexOf of one character: 0-based, -1 when absent
lastIndexOf(s, ch) ==
    LET at == {i \in 1 .. Len(s) : s[i] = ch}
    IN  IF at = {} THEN -1 ELSE (CHOOSE i \in at : \A j \in at : j <= i) - 1

\* String.prototype.substring(start): a negative start counts as 0
substring(s, start) == SubSeq(s, (IF start < 0 THEN 0 ELSE start) + 1, Len(s))

\* the entries of BLOCKED_EXTENSIONS and ALLOWED_FILE_TYPES that the sampled
\* files can spell
BLOCKED_EXTENSIONS == { <<".", "e", "x", "e">>, <<".", "j", "s">> }
ImagePng == <<"i", "m", "a", "g", "e", "/", "p", "n", "g">>
TextPlain == <<"t", "e", "x", "t", "/", "p", "l", "a", "i", "n">>
OctetStream == <<"a", "p", "p", "l", "i", "c", "a", "t", "i", "o", "n", "/",
                 "o", "c", "t", "e", "t", "-", "s", "t", "r", "e", "a", "m">>
ALLOWED_FILE_TYPES == {ImagePng, TextPlain}

\* the error strings are templates: the interpolated value is kept beside them
BlockedExtensionError(ext) ==
    [error |-> "File type '${ext}' is not allowed for security reasons", ext |-> ext]
TypeNotAllowedError(fileType) ==
    [error |-> "File type '${fileType}' is not allowed", fileType |-> fileType]

validateFileType_whitelistFirst(fileName, fileType) ==
    LET ext == substring(toLowerCase(fileName), lastIndexOf(fileName, "."))
    IN  IF toLowerCase(fileType) \in ALLOWED_FILE_TYPES
        THEN [isValid |-> TRUE, error |-> NoData]
        ELSE IF ext \in BLOCKED_EXTENSIONS
        THEN [isValid |-> FALSE, error |-> BlockedExtensionError(ext)]
        ELSE IF fileType = OctetStream
        THEN [isValid |-> TRUE, error |-> NoData]
        ELSE [isValid |-> FALSE, error |-> TypeNotAllowedError(fileType)]

validateFileType(fileName, fileType) ==
    LET ext == substring(toLowerCase(fileName), lastIndexOf(fileName, "."))
    IN  IF ext \in BLOCKED_EXTENSIONS
        THEN [isValid |-> FALSE, error |-> BlockedExtensionError(ext)]
        ELSE IF toLowerCase(fileType) \notin ALLOWED_FILE_TYPES
        THEN IF fileType = OctetStream /\ ext \notin BLOCKED_EXTENSIONS
             THEN [isValid |-> TRUE, error |-> NoData]
             ELSE [isValid |-> FALSE, error |-> TypeNotAllowedError(fileType)]
        ELSE [isValid |-> TRUE, error |-> NoData]

\* Math.ceil(size / chunk) of a size that is a natural number
Ceil(size, chunk) == (size + chunk - 1) \div chunk

\* the channel every socket joins on connection: its own id
SocketChannel(c) == IF c \in DOMAIN conn /\ conn[c] = "open" THEN {c} ELSE {}

FileSizeError == Err("File size exceeds maximum limit of 100MB")
ExactlyTwoError == Err("File transfer requires exactly 2 users in room")

\* the FileTransfer record handleSendFile stores
NewTransfer(id, c, receiver, file, t) ==
    [id |-> id, sender |-> c, receiver |-> receiver,
     fileName |-> file.name, fileSize |-> file.size, fileType |-> file.type,
     totalChunks |-> Ceil(file.size, CHUNK_SIZE), receivedChunks |-> 0,
     timestamp |-> t]

handleSendFile(c, code, file, t) ==
    /\ conn[c] = "open" /\ t >= now
    /\ IF code \notin DOMAIN rooms \/ ~Includes(rooms[code].users, c)
       THEN /\ resp' = Call("sendFile", c, code, file, Err("Not in room"))
            /\ emitted' = <<>>
            /\ UNCHANGED <<fileTransfers, issued, now>>
       ELSE IF Len(rooms[code].users) < 2
       THEN /\ resp' = Call("sendFile", c, code, file,
                            Err("Need at least 2 users to share files"))
            /\ emitted' = <<>>
            /\ UNCHANGED <<fileTransfers, issued, now>>
       ELSE IF file.size > MAX_FILE_SIZE
       THEN /\ resp' = Call("sendFile", c, code, file, FileSizeError)
            /\ emitted' = <<>>
            /\ UNCHANGED <<fileTransfers, issued, now>>
       ELSE IF ~validateFileType(file.name, file.type).isValid
       THEN /\ resp' = Call("sendFile", c, code, file,
                            validateFileType(file.name, file.type).error)
            /\ emitted' = <<>>
            /\ UNCHANGED <<fileTransfers, issued, now>>
       ELSE LET totalChunks == Ceil(file.size, CHUNK_SIZE)
                transferId  == issued + 1
                otherUsers  == Without(rooms[code].users, c)
            IN  IF Len(otherUsers) # 1
                THEN /\ resp' = Call("sendFile", c, code, file, ExactlyTwoError)
                     /\ emitted' = <<>>
                     /\ now' = t
                     /\ UNCHANGED <<fileTransfers, issued>>
                ELSE /\ fileTransfers' =
                          Put(fileTransfers, transferId,
                              NewTransfer(transferId, c, otherUsers[1], file, t))
                     /\ issued' = transferId
                     /\ now' = t
                     /\ emitted' =
                          <<Event("fileTransferStart", ServerTo(channels, code),
                                  [transferId |-> transferId, fileName |-> file.name,
                                   fileSize |-> file.size, fileType |-> file.type,
                                   totalChunks |-> totalChunks])>>
                     /\ resp' = Call("sendFile", c, code, file,
                                     [success |-> TRUE, transferId |-> transferId,
                                      totalChunks |-> totalChunks])
    /\ UNCHANGED <<rooms, roomLastActivity, channels, conn, ipTracking,
                   timers, completions, clusterVars, chat>>

\* the completion callbacks pending after a chunk brought the count to n
armed(transfer, n) ==
    IF n = transfer.totalChunks
    THEN Append(timers, [transferId |-> transfer.id, receiver |-> transfer.receiver])
    ELSE timers

InvalidTransfer == Err("Invalid transfer")

mayDrive_anyone(c, transferId) == transferId \in DOMAIN fileTransfers

\* `transfer && transfer.sender === client.id`
mayDrive(c, transferId) ==
    transferId \in DOMAIN fileTransfers /\ fileTransfers[transferId].sender = c

handleFileChunk(c, transferId, chunkIndex) ==
    /\ conn[c] = "open"
    /\ IF ~mayDrive(c, transferId)
       THEN /\ resp' = Call("fileChunk", c, transferId, chunkIndex, InvalidTransfer)
            /\ emitted' = <<>>
            /\ UNCHANGED <<fileTransfers, timers>>
       ELSE LET transfer == fileTransfers[transferId]
                n        == transfer.receivedChunks + 1
            IN  /\ fileTransfers' =
                     [fileTransfers EXCEPT ![transferId].receivedChunks = n]
                /\ emitted' =
                     <<Event("fileChunk", SocketChannel(transfer.receiver) \ {c},
                             [transferId |-> transferId, chunkIndex |-> chunkIndex])>>
                /\ timers' = armed(transfer, n)
                /\ resp' = Call("fileChunk", c, transferId, chunkIndex,
                                [success |-> TRUE])
    /\ UNCHANGED <<rooms, roomLastActivity, channels, conn, now, ipTracking,
                   issued, completions, clusterVars, chat>>

\* the callback of the oldest pending setTimeout runs
completeTransfer ==
    /\ timers # <<>>
    /\ LET timer == Head(timers)
           id    == timer.transferId
       IN  /\ emitted' = <<Event("fileTransferComplete", SocketChannel(timer.receiver),
                                 [transferId |-> id])>>
           /\ fileTransfers' = Delete(fileTransfers, id)
           /\ completions' =
                Put(completions, id,
                    IF id \in DOMAIN completions THEN completions[id] + 1 ELSE 1)
    /\ timers' = Tail(timers)
    /\ resp' = Call("setTimeout", "", <<>>, "", NoData)
    /\ UNCHANGED <<rooms, roomLastActivity, channels, conn, now, ipTracking, issued, clusterVars, chat>>

\* the fileTransferCancelled broadcast: to the first room, in for-in order,
\* that lists the socket
cancelEvents(c, transferId) ==
    LET mine == SelectSeq(SortedCodes(DOMAIN rooms),
                          LAMBDA code : Includes(rooms[code].users, c))
    IN  IF mine = <<>> THEN <<>>
        ELSE <<Event("fileTransferCancelled", ServerTo(channels, mine[1]),
                     [transferId |-> transferId])>>

NotAuthorized == Err("Transfer not found or not authorized")

handleCancelFileTransfer(c, transferId) ==
    /\ conn[c] = "open"
    /\ IF mayDrive(c, transferId)
       THEN /\ fileTransfers' = Delete(fileTransfers, transferId)
            /\ emitted' = cancelEvents(c, transferId)
            /\ resp' = Call("cancelFileTransfer", c, transferId, "", [success |-> TRUE])
       ELSE /\ resp' = Call("cancelFileTransfer", c, transferId, "", NotAuthorized)
            /\ emitted' = <<>>
            /\ UNCHANGED fileTransfers
    /\ UNCHANGED <<rooms, roomLastActivity, channels, conn, now, ipTracking,
                   transferVars, clusterVars, chat>>

cleanupOldTransfers_keep(t) ==
    /\ t >= now
    /\ now' = t
    /\ resp' = Call("cleanupOldTransfers", "", <<>>, "", NoData)
    /\ emitted' = <<>>
    /\ UNCHANGED <<rooms, roomLastActivity, channels, conn, ipTracking,
                   fileTransfers, transferVars, clusterVars, chat>>

\* the janitor sweep of the transfer table at Date.now() = t
cleanupOldTransfers(t) ==
    /\ t >= now
    /\ LET expired == {id \in DOMAIN fileTransfers :
                         t - fileTransfers[id].timestamp > TRANSFER_TIMEOUT}
       IN  fileTransfers' = [id \in DOMAIN fileTransfers \ expired |-> fileTransfers[id]]
    /\ now' = t
    /\ resp' = Call("cleanupOldTransfers", "", <<>>, "", NoData)
    /\ emitted' = <<>>
    /\ UNCHANGED <<rooms, roomLastActivity, channels, conn, ipTracking, transferVars, clusterVars, chat>>

----------------------------------------------------------------------------
(* SpecFile: the room socket a opens on the current gateway, three sockets, *)
(* and the file transfers between them against the completion timers, the  *)
(* janitor and disconnects. The gateway never reads chunkIndex, so every    *)
(* chunk is sent with index 0.                                              *)

APng == <<"a", ".", "p", "n", "g">>
XExe == <<"x", ".", "e", "x", "e">>

\* the files of SpecFile: sizes of 0, 1 and 2 chunks and one over the limit
FileSizes == {0, CHUNK_SIZE, CHUNK_SIZE + 1, MAX_FILE_SIZE + 1}
Files == [name : {APng, XExe}, type : {ImagePng}, size : FileSizes]

\* the ids a request can name: those issued so far and one never issued
TransferIds == 1 .. MaxTransfers + 1

\* the sockets start one transfer at a time, MaxTransfers in all
CanSend == fileTransfers = <<>> /\ issued < MaxTransfers

\* the sender may still send a chunk of the transfer
CanChunk(transferId) ==
    transferId \in DOMAIN fileTransfers
      => fileTransfers[transferId].receivedChunks < MaxChunks

\* the times at which the janitor can run: a pending 100 ms callback runs
\* before the clock has advanced by a transfer timeout
SweepTimes ==
    {now} \cup {t \in {now + TRANSFER_TIMEOUT + 1} :
                  timers = <<>> /\ t <= MaxSweeps * (TRANSFER_TIMEOUT + 1)}

NextFile ==
    \/ roomLastActivity = <<>> /\ createRoom("a", "text", now)
    \/ \E c \in Clients, code \in RequestCodes : joinRoom(c, code, NoType, now)
    \/ \E c \in Clients, code \in RequestCodes, file \in Files :
         CanSend /\ handleSendFile(c, code, file, now)
    \/ \E c \in Clients, id \in TransferIds, chunkIndex \in {0} :
         CanChunk(id) /\ handleFileChunk(c, id, chunkIndex)
    \/ \E c \in Clients, id \in TransferIds : handleCancelFileTransfer(c, id)
    \/ completeTransfer
    \/ \E c \in Clients : handleDisconnect(c)
    \/ \E t \in SweepTimes : cleanupOldTransfers(t)

SpecFile == Init /\ [][NextFile]_vars

\* C13: a started transfer announces totalChunks = ceil(fileSize / 64 KiB);
\* no transfer is completed twice; and a transfer that has received its
\* totalChunks chunks is completed or has its completion pending.
C13_ChunkCountDrivesOneCompletion ==
    /\ \A id \in DOMAIN fileTransfers :
         LET transfer == fileTransfers[id]
         IN  /\ transfer.totalChunks * CHUNK_SIZE >= transfer.fileSize
             /\ (transfer.totalChunks - 1) * CHUNK_SIZE < transfer.fileSize
             /\ (resp.op = "sendFile" /\ Succeeded(resp) /\ resp.ret.transferId = id)
                  => resp.ret.totalChunks = transfer.totalChunks
             /\ transfer.receivedChunks >= transfer.totalChunks
                  => \E i \in 1 .. Len(timers) : timers[i].transferId = id
    /\ \A id \in DOMAIN completions : completions[id] <= 1

\* C14: the completion callback emits fileTransferComplete only for a
\* transfer that is still in the table, that is, one that was not cancelled,
\* removed by a disconnect or expired before the callback ran.
C14_NoCompletionAfterRemoval ==
    [][resp'.op = "setTimeout" =>
       \A i \in 1 .. Len(emitted') :
         emitted'[i].event = "fileTransferComplete"
           => emitted'[i].data.transferId \in DOMAIN fileTransfers]_vars

\* C15: a successful cancelFileTransfer removes the transfer, a disconnect
\* removes the transfers the socket sends or receives, a removed transfer
\* never comes back, an id not yet issued names no transfer, and a fileChunk
\* that names no transfer is rejected with 'Invalid transfer', relays nothing
\* and arms no completion.
C15_ChunkAfterRemovalRejected ==
    [][/\ \A id \in TransferIds :
            /\ (id \notin DOMAIN fileTransfers /\ id <= issued)
                 => id \notin DOMAIN fileTransfers'
            /\ id > issued => id \notin DOMAIN fileTransfers
            /\ (resp'.op = "cancelFileTransfer" /\ Succeeded(resp'))
                 => \A c \in Clients :
                      handleCancelFileTransfer(c, id) => id \notin DOMAIN fileTransfers'
       /\ resp'.op = "disconnect" =>
            \A c \in Clients : handleDisconnect(c) =>
              \A id \in DOMAIN fileTransfers' :
                fileTransfers'[id].sender # c /\ fileTransfers'[id].receiver # c
       /\ resp'.op = "fileChunk" =>
            \A c \in Clients, id \in TransferIds :
              (id \notin DOMAIN fileTransfers /\ handleFileChunk(c, id, 0))
                => /\ resp'.ret = InvalidTransfer
                   /\ emitted' = <<>>
                   /\ UNCHANGED <<fileTransfers, timers>>]_vars

\* a chunk of a transfer that was cancelled is rejected: the id was issued,
\* no socket has disconnected, the clock has not moved and nothing completed
C15_Witness ==
    /\ resp.op = "fileChunk" /\ resp.ret = InvalidTransfer
    /\ issued = 1 /\ fileTransfers = <<>> /\ completions = <<>> /\ timers = <<>>
    /\ now = 0 /\ \A c \in Clients : conn[c] = "open"

\* C16: a fileChunk or a cancelFileTransfer that names a transfer of another
\* sender returns an error, leaves the transfer table and the pending
\* completions as they are, and emits nothing.
C16_OnlySenderDrivesTransfer ==
    [][resp'.op \in {"fileChunk", "cancelFileTransfer"} =>
       \A c \in Clients, id \in DOMAIN fileTransfers :
         (/\ fileTransfers[id].sender # c
          /\ \/ handleFileChunk(c, id, 0)
             \/ handleCancelFileTransfer(c, id))
         => /\ IsError(resp')
            /\ emitted' = <<>>
            /\ UNCHANGED <<fileTransfers, timers>>]_vars

\* the receiver's cancelFileTransfer of a transfer in progress was refused
C16_Witness ==
    /\ resp.op = "cancelFileTransfer" /\ resp.ret = NotAuthorized
    /\ \E id \in DOMAIN fileTransfers :
         /\ fileTransfers[id].receivedChunks = 1
         /\ conn[fileTransfers[id].receiver] = "open"

----------------------------------------------------------------------------
(* SpecSend: the room socket a opens on the current gateway, and every      *)
(* sendFile the three sockets can make of a one-chunk file with the sampled *)
(* names and MIME types                                                     *)

Readme == <<"r", "e", "a", "d", "m", "e">>
UpperExe == <<"X", ".", "E", "X", "E">>
ArchiveJs == <<"a", ".", "p", "n", "g", ".", "j", "s">>
UpperPng == <<"I", "M", "A", "G", "E", "/", "P", "N", "G">>
MsDownload == <<"a", "p", "p", "l", "i", "c", "a", "t", "i", "o", "n", "/",
                "x", "-", "m", "s", "d", "o", "w", "n", "l", "o", "a", "d">>

FileNames == {APng, Readme, XExe, UpperExe, ArchiveJs}
FileTypes == {ImagePng, UpperPng, TextPlain, OctetStream, MsDownload}
SentFiles == [name : FileNames, type : FileTypes, size : {CHUNK_SIZE}]

NextSend ==
    \/ roomLastActivity = <<>> /\ createRoom("a", "text", now)
    \/ \E c \in Clients, code \in RequestCodes : joinRoom(c, code, NoType, now)
    \/ \E c \in Clients, code \in RequestCodes, file \in SentFiles :
         CanSend /\ handleSendFile(c, code, file, now)
    \/ \E c \in Clients : handleDisconnect(c)

SpecSend == Init /\ [][NextSend]_vars

\* the file name, lower-cased, ends in a blocked extension
EndsInBlockedExtension(name) ==
    \E ext \in BLOCKED_EXTENSIONS :
      /\ Len(name) >= Len(ext)
      /\ SubSeq(toLowerCase(name), Len(name) - Len(ext) + 1, Len(name)) = ext

\* the sampled files whose name ends in a blocked extension
BlockedFiles == {file \in SentFiles : EndsInBlockedExtension(file.name)}

\* C18: a sendFile of a file whose name ends in a blocked extension returns
\* an error whatever MIME type it declares, creates no transfer record and
\* announces nothing; from a member of a room of two or more the error is the
\* blocked-extension one.
C18_BlockedExtensionRejected ==
    [][resp'.op = "sendFile" =>
       \A c \in Clients, code \in RequestCodes, file \in BlockedFiles :
         handleSendFile(c, code, file, now)
         => /\ IsError(resp')
            /\ UNCHANGED <<fileTransfers, issued>>
            /\ emitted' = <<>>
            /\ (/\ code \in DOMAIN rooms
                /\ Includes(rooms[code].users, c)
                /\ Len(rooms[code].users) >= 2)
               => \E ext \in BLOCKED_EXTENSIONS :
                    resp'.ret = BlockedExtensionError(ext)]_vars

\* a sendFile in a room of two was refused for the extension .exe
C18_Witness ==
    /\ resp.op = "sendFile"
    /\ resp.ret = BlockedExtensionError(<<".", "e", "x", "e">>)
    /\ \E code \in DOMAIN rooms : Len(rooms[code].users) = 2

----------------------------------------------------------------------------
(* The peer-to-peer gateway, src/unnamed/part_005: generateCode and the     *)
(* Room literal are those of the current gateway; it keeps no               *)
(* roomLastActivity, validates no file and limits no file size.             *)

createRoom_p2p(c, type) ==
    /\ conn[c] = "open"
    /\ \E code \in generateCode :
         /\ rooms' = Put(rooms, code, NewRoom(c, type))
         /\ channels' = Join(channels, c, code)
         /\ resp' = Call("createRoom", c, code, type, [code |-> code])
    /\ emitted' = <<>>
    /\ UNCHANGED <<roomLastActivity, conn, now, ipTracking, fileTransfers, transferVars, clusterVars, chat>>

joinRoom_p2p(c, code, expectedType) ==
    /\ conn[c] = "open"
    /\ IF code \notin DOMAIN rooms
       THEN /\ resp' = Call("joinRoom", c, code, expectedType, Err("Room not found"))
            /\ emitted' = <<>>
            /\ UNCHANGED <<rooms, channels>>
       ELSE LET room  == rooms[code]
                users == Append(room.users, c)
                ch    == Join(channels, c, code)
            IN  /\ rooms' = [rooms EXCEPT ![code].users = users]
                /\ channels' = ch
                /\ emitted' = MemberEvents("userJoined", ServerTo(ch, code), c, room, users)
                /\ resp' = Call("joinRoom", c, code, expectedType,
                                [success |-> TRUE, messages |-> MessagesOf(room),
                                 totalUsers |-> Len(users), roomType |-> room.type])
    /\ UNCHANGED <<roomLastActivity, conn, now, ipTracking, fileTransfers, transferVars, clusterVars, chat>>

\* room.users.find((id) => id !== client.id)
findOther(users, c) ==
    IF Without(users, c) = <<>> THEN Undefined ELSE Defined(Without(users, c)[1])

handleSendFile_p2p(c, code, file, t) ==
    /\ conn[c] = "open" /\ t >= now
    /\ IF code \notin DOMAIN rooms \/ ~Includes(rooms[code].users, c)
       THEN /\ resp' = Call("sendFile", c, code, file, Err("Not in room"))
            /\ emitted' = <<>>
            /\ UNCHANGED <<fileTransfers, issued, now>>
       ELSE IF Len(rooms[code].users) < 2
       THEN /\ resp' = Call("sendFile", c, code, file,
                            Err("Need at least 2 users to share files"))
            /\ emitted' = <<>>
            /\ UNCHANGED <<fileTransfers, issued, now>>
       ELSE LET totalChunks == Ceil(file.size, CHUNK_SIZE)
                transferId  == issued + 1
                receiver    == findOther(rooms[code].users, c)
            IN  /\ fileTransfers' =
                     Put(fileTransfers, transferId,
                         NewTransfer(transferId, c, receiver, file, t))
                /\ issued' = transferId
                /\ now' = t
                /\ emitted' =
                     <<Event("fileTransferStart", ServerTo(channels, code),
                             [transferId |-> transferId, fileName |-> file.name,
                              fileSize |-> file.size, fileType |-> file.type,
                              totalChunks |-> totalChunks])>>
                /\ resp' = Call("sendFile", c, code, file,
                                [success |-> TRUE, transferId |-> transferId,
                                 totalChunks |-> totalChunks])
    /\ UNCHANGED <<rooms, roomLastActivity, channels, conn, ipTracking,
                   timers, completions, clusterVars, chat>>

----------------------------------------------------------------------------
(* SpecP2P: the room socket a opens on the peer-to-peer gateway, the joins  *)
(* of three sockets and their sendFile requests                             *)

NextP2P ==
    \/ channels = <<>> /\ createRoom_p2p("a", "text")
    \/ \E c \in Clients, code \in RequestCodes :
         CanJoin(code) /\ joinRoom_p2p(c, code, "text")
    \/ \E c \in Clients, code \in RequestCodes, file \in Files :
         issued < MaxTransfers /\ handleSendFile_p2p(c, code, file, now)

SpecP2P == Init /\ [][NextP2P]_vars

\* C17: a sendFile starts a transfer only from a member of a room whose
\* member list holds exactly one entry besides the sender's, and records that
\* entry as the receiver; every other sendFile returns an error, creates no
\* transfer record and announces nothing.
C17_TransferOnlyBetweenTwoMembers ==
    [][resp'.op = "sendFile" =>
       \A c \in Clients, code \in RequestCodes, file \in Files :
         handleSendFile_p2p(c, code, file, now) =>
           IF /\ code \in DOMAIN rooms
              /\ Includes(rooms[code].users, c)
              /\ Len(Without(rooms[code].users, c)) = 1
           THEN Succeeded(resp') =>
                  fileTransfers'[resp'.ret.transferId].receiver
                    = Defined(Without(rooms[code].users, c)[1])
           ELSE /\ IsError(resp')
                /\ UNCHANGED <<fileTransfers, issued>>
                /\ emitted' = <<>>]_vars

----------------------------------------------------------------------------
(* Signalling relay of the current gateway. A session description or an ICE *)
(* candidate is relayed as it came: it is one opaque value.                 *)

ClientTo_all(ch, c, channel) == ServerTo(ch, channel)

\* client.to(channel): every socket that joined the channel, but the client
ClientTo(ch, c, channel) == ServerTo(ch, channel) \ {c}

Payloads == {"sdp"}
TrackKinds == {"audio", "video"}

handleOffer(c, code, offer) ==
    /\ conn[c] = "open"
    /\ emitted' =
         <<Event("offer", ClientTo(channels, c, code),
                 [offer |-> offer, from |-> c,
                  roomType |-> IF code \in DOMAIN rooms
                               THEN Defined(rooms[code].type) ELSE Undefined,
                  audioSettings |-> IF code \in DOMAIN rooms
                                    THEN rooms[code].audioSettings ELSE Undefined])>>
    /\ resp' = Call("offer", c, code, offer, [success |-> TRUE])
    /\ UNCHANGED <<rooms, roomLastActivity, channels, conn, now, ipTracking,
                   fileTransfers, transferVars, clusterVars, chat>>

handleAnswer(c, code, answer) ==
    /\ conn[c] = "open"
    /\ emitted' = <<Event("answer", ClientTo(channels, c, code),
                          [answer |-> answer, from |-> c])>>
    /\ resp' = Call("answer", c, code, answer, [success |-> TRUE])
    /\ UNCHANGED <<rooms, roomLastActivity, channels, conn, now, ipTracking,
                   fileTransfers, transferVars, clusterVars, chat>>

handleIceCandidate(c, code, candidate) ==
    /\ conn[c] = "open"
    /\ emitted' = <<Event("ice-candidate", ClientTo(channels, c, code),
                          [candidate |-> candidate, from |-> c])>>
    /\ resp' = Call("ice-candidate", c, code, candidate, [success |-> TRUE])
    /\ UNCHANGED <<rooms, roomLastActivity, channels, conn, now, ipTracking,
                   fileTransfers, transferVars, clusterVars, chat>>

handleTrackUpdate(c, code, trackKind, enabled) ==
    /\ conn[c] = "open"
    /\ IF code \notin DOMAIN rooms \/ ~Includes(rooms[code].users, c)
       THEN /\ resp' = Call("trackUpdate", c, code, trackKind, Err("Not in room"))
            /\ emitted' = <<>>
       ELSE /\ emitted' =
                 <<Event("trackStateChanged", ClientTo(channels, c, code),
                         [userId |-> c, trackKind |-> trackKind, enabled |-> enabled])>>
            /\ resp' = Call("trackUpdate", c, code, trackKind, [success |-> TRUE])
    /\ UNCHANGED <<rooms, roomLastActivity, channels, conn, now, ipTracking,
                   fileTransfers, transferVars, clusterVars, chat>>

----------------------------------------------------------------------------
(* SpecSignal: the room socket a opens on the current gateway, three        *)
(* sockets that join and leave it, and the signals they send                *)

NextSignal ==
    \/ \E type \in RoomTypes : roomLastActivity = <<>> /\ createRoom("a", type, now)
    \/ \E c \in Clients, code \in RequestCodes : joinRoom(c, code, NoType, now)
    \/ \E c \in Clients, code \in RequestCodes : handleLeaveRoom(c, code)
    \/ \E c \in Clients, code \in RequestCodes, offer \in Payloads :
         handleOffer(c, code, offer)
    \/ \E c \in Clients, code \in RequestCodes, answer \in Payloads :
         handleAnswer(c, code, answer)
    \/ \E c \in Clients, code \in RequestCodes, candidate \in Payloads :
         handleIceCandidate(c, code, candidate)
    \/ \E c \in Clients, code \in RequestCodes, trackKind \in TrackKinds,
          enabled \in BOOLEAN :
         handleTrackUpdate(c, code, trackKind, enabled)

SpecSignal == Init /\ [][NextSignal]_vars

\* the handler call of the step is a signal of socket c that names the room
SignalStep(c, code) ==
    \/ \E offer \in Payloads : handleOffer(c, code, offer)
    \/ \E answer \in Payloads : handleAnswer(c, code, answer)
    \/ \E candidate \in Payloads : handleIceCandidate(c, code, candidate)
    \/ \E trackKind \in TrackKinds, enabled \in BOOLEAN :
         handleTrackUpdate(c, code, trackKind, enabled)

SignalOps == {"offer", "answer", "ice-candidate", "trackUpdate"}

\* C19: an offer, answer, ice-candidate or trackUpdate of a member of a room
\* is relayed as one event that goes to every other member of the room and
\* not to the sender.
C19_RelayToOthersOnly ==
    [][resp'.op \in SignalOps =>
       \A c \in Clients, code \in DOMAIN rooms :
         (Includes(rooms[code].users, c) /\ SignalStep(c, code))
         => /\ Len(emitted') = 1
            /\ Range(rooms[code].users) \ {c} \subseteq emitted'[1].to
            /\ c \notin emitted'[1].to]_vars

\* a member's track update went to the two other members of its room
C19_Witness ==
    /\ resp.op = "trackUpdate" /\ Succeeded(resp)
    /\ Len(emitted) = 1 /\ emitted[1].event = "trackStateChanged"
    /\ \E code \in DOMAIN rooms :
         /\ Len(rooms[code].users) = 3
         /\ emitted[1].to = Range(rooms[code].users) \ {emitted[1].data.userId}
         /\ Cardinality(emitted[1].to) = 2

\* C20: a signal naming a room the sender is not a member of reaches no
\* member of that room, and a signal naming a code that is no room reaches
\* nobody; neither changes the state of the gateway.
C20_RelayValidatesMembership ==
    [][resp'.op \in SignalOps =>
       \A c \in Clients, code \in RequestCodes :
         (/\ code \notin DOMAIN rooms \/ ~Includes(rooms[code].users, c)
          /\ SignalStep(c, code))
         => /\ \A i \in 1 .. Len(emitted') :
                 IF code \in DOMAIN rooms
                 THEN emitted'[i].to \cap Range(rooms[code].users) = {}
                 ELSE emitted'[i].to = {}
            /\ UNCHANGED <<rooms, roomLastActivity, channels, fileTransfers>>]_vars

----------------------------------------------------------------------------
(* SpecCall: two sockets of the current gateway that open a room whenever   *)
(* the process has none, join it, end the call, and chat, send files and    *)
(* report track changes under its code                                      *)

NextCall ==
    \/ \E c \in Pair, type \in RoomTypes : rooms = <<>> /\ createRoom(c, type, now)
    \/ \E c \in Pair, code \in RequestCodes : joinRoom(c, code, NoType, now)
    \/ \E c \in Pair, code \in RequestCodes : handleEndCall(c, code)
    \/ \E c \in Pair, code \in RequestCodes :
         CanStore(code) /\ handleSendMessage(c, code, ChatText, now)
    \/ \E c \in Pair, code \in RequestCodes, file \in Files :
         CanSend /\ handleSendFile(c, code, file, now)
    \/ \E c \in Pair, code \in RequestCodes, trackKind \in TrackKinds :
         handleTrackUpdate(c, code, trackKind, TRUE)

SpecCall == Init /\ [][NextCall]_vars

\* C21: endCall emits callEnded to the room first and leaves no room under
\* the code, whoever is in it; only createRoom brings a room into being; and
\* a sendMessage, sendFile or trackUpdate naming a code that is no room
\* returns 'Not in room'.
C21_EndCallDeletesRoom ==
    [][/\ resp'.op = "endCall" =>
            \A c \in Pair, code \in RequestCodes :
              handleEndCall(c, code) =>
                /\ code \notin DOMAIN rooms'
                /\ emitted'[1] = Event("callEnded", ServerTo(channels, code),
                                       [endedBy |-> c])
                /\ Succeeded(resp')
       /\ \A code \in RequestCodes :
            (code \notin DOMAIN rooms /\ code \in DOMAIN rooms')
              => resp'.op = "createRoom"
       /\ resp'.op \in {"sendMessage", "sendFile", "trackUpdate"} =>
            \A c \in Pair, code \in RequestCodes \ DOMAIN rooms :
              (\/ handleSendMessage(c, code, ChatText, now)
               \/ \E file \in Files : handleSendFile(c, code, file, now)
               \/ \E trackKind \in TrackKinds :
                    handleTrackUpdate(c, code, trackKind, TRUE))
              => resp'.ret = Err("Not in room")]_vars

\* a sendMessage was refused under the code of a room of two that endCall
\* deleted: both sockets are still in its channel and the process has no room
C21_Witness ==
    /\ resp.op = "sendMessage" /\ resp.ret = Err("Not in room")
    /\ rooms = <<>>
    /\ \E code \in DOMAIN channels : channels[code] = Pair

----------------------------------------------------------------------------
(* SpecDrop: three sockets of the current gateway, two of which open rooms;  *)
(* they join them, send a two-chunk file and disconnect, against the        *)
(* completion timer                                                         *)

TwoChunkFile == [name |-> APng, type |-> ImagePng, size |-> CHUNK_SIZE + 1]

NextDrop ==
    \/ \E c \in Pair : createRoom(c, "text", now)
    \/ \E c \in Clients, code \in RequestCodes : joinRoom(c, code, NoType, now)
    \/ \E c \in Clients, code \in RequestCodes :
         CanSend /\ handleSendFile(c, code, TwoChunkFile, now)
    \/ \E c \in Clients, id \in TransferIds :
         CanChunk(id) /\ handleFileChunk(c, id, 0)
    \/ completeTransfer
    \/ \E c \in Clients : handleDisconnect(c)

SpecDrop == Init /\ [][NextDrop]_vars

\* C22: after the disconnect of a socket no transfer names it as sender or
\* receiver and no room lists it; each room it was alone in is deleted, and
\* each other room it was in is kept and its remaining members are sent
\* userLeft with the reduced member count.
C22_DisconnectRemovesSocket ==
    [][resp'.op = "disconnect" =>
       \A c \in Clients :
         handleDisconnect(c) =>
           /\ \A id \in DOMAIN fileTransfers' :
                fileTransfers'[id].sender # c /\ fileTransfers'[id].receiver # c
           /\ \A code \in DOMAIN rooms' : ~Includes(rooms'[code].users, c)
           /\ \A code \in DOMAIN rooms :
                Includes(rooms[code].users, c) =>
                  IF Range(rooms[code].users) = {c}
                  THEN code \notin DOMAIN rooms'
                  ELSE /\ code \in DOMAIN rooms'
                       /\ \E i \in 1 .. Len(emitted') :
                            /\ emitted'[i].event = "userLeft"
                            /\ emitted'[i].data =
                                 [userId |-> c,
                                  totalUsers |-> Len(rooms[code].users) - 1]
                            /\ emitted'[i].to = Range(rooms'[code].users)]_vars

\* the receiver of a transfer that has a chunk disconnected while it was in
\* two rooms with others: the table is empty and two userLeft went out
C22_Witness ==
    /\ resp.op = "disconnect"
    /\ issued = 1 /\ fileTransfers = <<>> /\ completions = <<>>
    /\ Len(emitted) = 2
    /\ emitted[1].event = "userLeft" /\ emitted[2].event = "userLeft"
    /\ Cardinality(DOMAIN rooms) = 2

----------------------------------------------------------------------------
(* SpecTouch: the room a socket opens on the current gateway and the        *)
(* requests of two sockets that change it, as the clock advances            *)

\* what Date.now() can return to the next handler
Ticks == {t \in {now, now + 1} : t <= MaxTicks}

NextTouch ==
    \/ \E c \in Pair, t \in Ticks : rooms = <<>> /\ createRoom(c, "text", t)
    \/ \E c \in Pair, code \in RequestCodes, t \in Ticks : joinRoom(c, code, NoType, t)
    \/ \E c \in Pair, code \in RequestCodes : handleLeaveRoom(c, code)
    \/ \E c \in Pair, code \in RequestCodes, t \in Ticks :
         CanStore(code) /\ handleSendMessage(c, code, ChatText, t)
    \/ \E c \in Pair, code \in RequestCodes, t \in Ticks :
         CanSend /\ handleSendFile(c, code, TwoChunkFile, t)

SpecTouch == Init /\ [][NextTouch]_vars

\* the step is a request of a member that changes the room and keeps it
MutationStep(code) ==
    \E c \in Pair :
      \/ resp'.ret = [code |-> code] /\ createRoom(c, "text", now')
      \/ /\ Succeeded(resp')
         /\ \/ joinRoom(c, code, NoType, now')
            \/ handleSendMessage(c, code, ChatText, now')
            \/ handleSendFile(c, code, TwoChunkFile, now')
            \/ /\ code \in DOMAIN rooms /\ Includes(rooms[code].users, c)
               /\ code \in DOMAIN rooms'
               /\ handleLeaveRoom(c, code)

\* C23: a createRoom, a joinRoom, a sendMessage or a sendFile that succeeds,
\* and a leaveRoom of a member that leaves others in the room, set the
\* lastActivity of the room to the time of the request, which is not before
\* the last time the gateway read the clock.
C23_MutationsTouchActivity ==
    [][\A code \in RequestCodes :
         MutationStep(code) =>
           /\ code \in DOMAIN roomLastActivity'
           /\ roomLastActivity'[code] >= now']_vars

----------------------------------------------------------------------------
(* SpecSweep: SpecFile with a janitor that keeps running and timers that    *)
(* fire; transfers start while the clock of the model can still advance by  *)
(* a transfer timeout                                                       *)

\* the last time of the model's clock
LastTime == MaxSweeps * (TRANSFER_TIMEOUT + 1)

\* the first sweep later than a transfer timeout from now
lateSweep ==
    /\ timers = <<>>
    /\ now + TRANSFER_TIMEOUT + 1 <= LastTime
    /\ cleanupOldTransfers(now + TRANSFER_TIMEOUT + 1)

NextSweep ==
    \/ roomLastActivity = <<>> /\ createRoom("a", "text", now)
    \/ \E c \in Clients, code \in RequestCodes : joinRoom(c, code, NoType, now)
    \/ \E c \in Clients, code \in RequestCodes, file \in Files :
         /\ CanSend /\ now + TRANSFER_TIMEOUT + 1 <= LastTime
         /\ handleSendFile(c, code, file, now)
    \/ \E c \in Clients, id \in TransferIds :
         CanChunk(id) /\ handleFileChunk(c, id, 0)
    \/ \E c \in Clients, id \in TransferIds : handleCancelFileTransfer(c, id)
    \/ completeTransfer
    \/ \E c \in Clients : handleDisconnect(c)
    \/ cleanupOldTransfers(now)
    \/ lateSweep

SpecSweep ==
    /\ Init /\ [][NextSweep]_vars
    /\ WF_vars(completeTransfer)
    /\ WF_vars(lateSweep)

\* C25: every transfer record is eventually out of the transfer table, and
\* no record older than the transfer timeout is in the table after a sweep.
C25_TransfersEventuallyRemoved ==
    /\ \A id \in TransferIds :
         (id \in DOMAIN fileTransfers) ~> (id \notin DOMAIN fileTransfers)
    /\ [][resp'.op = "cleanupOldTransfers" =>
            \A id \in DOMAIN fileTransfers' :
              now' - fileTransfers'[id].timestamp <= TRANSFER_TIMEOUT]_vars

\* a sweep has emptied the table of a transfer that nobody cancelled or left
\* and that never completed
C25_Witness ==
    /\ resp.op = "cleanupOldTransfers" /\ now > TRANSFER_TIMEOUT
    /\ issued = 1 /\ fileTransfers = <<>> /\ completions = <<>>
    /\ \A c \in Clients : conn[c] = "open"
    /\ \E code \in DOMAIN rooms : Len(rooms[code].users) = 2

----------------------------------------------------------------------------
(* unnamed/part_003: the gateway with the shared store. Several gateway      *)
(* processes run the same code, each with its own this.rooms and             *)
(* this.roomLastActivity; socket.io's Redis adapter makes server.to(code)    *)
(* reach the sockets of every process; room snapshots and join counters     *)
(* live in one Redis. A command a handler sends with `void` is in flight    *)
(* until Redis runs it; a command a handler awaits has run when the handler *)
(* resumes. Commands of one process run in the order they were sent.        *)

MAX_MESSAGES_PER_ROOM_redis == 50
MAX_JOIN_ATTEMPTS == 5
JOIN_WINDOW == 60 * 1000        \* expire(key, 60), in milliseconds
ROOM_TTL == 3600 * 1000         \* set(key, value, 3600), in milliseconds

\* the gateway process each sampled socket is connected to
processOf == [c \in Clients |-> IF c = "b" THEN "B" ELSE "A"]

\* generateCode() of a process: a draw that is not a key of its own this.rooms
generateCodeAt(rm) == {CodeOfDraw(k) : k \in RandomDraws} \ DOMAIN rm

\* JSON.stringify(room): the properties whose value is undefined are left out
stringify(room) ==
    LET keys == {"creator", "users", "type"}
                \cup {k \in {"messages", "audioSettings"} : Len(room[k]) > 0}
    IN  [k \in keys |-> IF k \in {"messages", "audioSettings"}
                        THEN ValueOf(room[k]) ELSE room[k]]

\* JSON.parse(data) as Room: a property the text lacks reads as undefined
parse(data) ==
    [creator |-> data.creator, users |-> data.users, type |-> data.type,
     messages |-> IF "messages" \in DOMAIN data
                  THEN Defined(data.messages) ELSE Undefined,
     audioSettings |-> IF "audioSettings" \in DOMAIN data
                       THEN Defined(data.audioSettings) ELSE Undefined]

\* whether Redis still holds the entry at its time t
live(entry, t) == ~IsDefined(entry.expiresAt) \/ ValueOf(entry.expiresAt) > t

getRoom_null(store, code, t) == Undefined

\* redisService.get(`room:${code}`) at Redis time t: the text, or null
getRoom(store, code, t) ==
    IF code \in DOMAIN store.rooms /\ live(store.rooms[code], t)
    THEN Defined(store.rooms[code].value) ELSE Undefined

\* redisService.set(`room:${code}`, value, 3600): SETEX
setRoom(store, code, value, t) ==
    [store EXCEPT !.rooms = Put(store.rooms, code,
                                [value |-> value, expiresAt |-> Defined(t + ROOM_TTL)])]

\* redisService.delete(`room:${code}`)
deleteRoom(store, code) == [store EXCEPT !.rooms = Delete(store.rooms, code)]

\* the counter redisService.incr(`rate_limit:join:${clientId}`) returns
incrCount(store, c, t) ==
    IF c \in DOMAIN store.counters /\ live(store.counters[c], t)
    THEN store.counters[c].value + 1 ELSE 1

\* the store after checkJoinRateLimit's incr and, when it returned 1, expire
incrJoins(store, c, t) ==
    LET count == incrCount(store, c, t)
    IN  [store EXCEPT !.counters =
           Put(store.counters, c,
               [value |-> count,
                expiresAt |-> IF count = 1 THEN Defined(t + JOIN_WINDOW)
                              ELSE store.counters[c].expiresAt])]

TooManyJoins == Err("Too many join attempts. Please wait a minute.")

\* what checkJoinRateLimit returns for the count incr gave
checkJoinRateLimit_off(count) == [allowed |-> TRUE]

checkJoinRateLimit(count) ==
    IF count > MAX_JOIN_ATTEMPTS
    THEN [allowed |-> FALSE, error |-> TooManyJoins.error]
    ELSE [allowed |-> TRUE]

\* void this.syncRoomToRedis(code), sent by process p whose rooms are rm
syncRoomToRedis(q, rm, code) ==
    IF code \in DOMAIN rm
    THEN Append(q, [cmd |-> "set", code |-> code, value |-> stringify(rm[code])])
    ELSE q

\* this.rooms of the process after loadRoomFromRedis(code) got `data`
loadRoomFromRedis(rm, code, data) ==
    IF IsDefined(data) THEN Put(rm, code, parse(ValueOf(data))) ELSE rm

\* Redis runs the oldest command process p has in flight
redisApply(p) ==
    /\ wire[p] # <<>>
    /\ LET command == Head(wire[p])
       IN  redis' = IF command.cmd = "set"
                    THEN setRoom(redis, command.code, command.value, now)
                    ELSE deleteRoom(redis, command.code)
    /\ wire' = [wire EXCEPT ![p] = Tail(wire[p])]
    /\ resp' = Call("redis", "", <<>>, "", NoData)
    /\ emitted' = <<>>
    /\ UNCHANGED <<rooms, roomLastActivity, channels, conn, now, ipTracking,
                   fileTransfers, transferVars, nodes, joins, chat>>

\* what a handler of part_003 leaves alone: the single-process tables
localVars == <<rooms, roomLastActivity, ipTracking, fileTransfers>>

createRoom_redis(c, type, t) ==
    LET p == processOf[c] IN
    /\ conn[c] = "open" /\ t >= now
    /\ \E code \in generateCodeAt(nodes[p].rooms) :
         LET rm == Put(nodes[p].rooms, code, NewRoom(c, type))
         IN  /\ nodes' = [nodes EXCEPT ![p] =
                            [rooms |-> rm,
                             roomLastActivity |-> Put(nodes[p].roomLastActivity, code, t)]]
             /\ wire' = [wire EXCEPT ![p] = syncRoomToRedis(wire[p], rm, code)]
             /\ channels' = Join(channels, c, code)
             /\ resp' = Call("createRoom", c, code, type, [code |-> code])
    /\ now' = t
    /\ emitted' = <<>>
    /\ UNCHANGED <<localVars, chat, conn, transferVars, redis, joins>>

\* joinRoom up to its first await: checkJoinRateLimit's incr (and expire) have
\* run in Redis, after everything the process sent before
joinRoom_await(c, code, expectedType) ==
    LET p == processOf[c] IN
    /\ conn[c] = "open" /\ c \notin DOMAIN joins /\ wire[p] = <<>>
    /\ redis' = incrJoins(redis, c, now)
    /\ joins' = Put(joins, c, [code |-> code, expectedType |-> expectedType,
                               count |-> incrCount(redis, c, now),
                               stage |-> "limit", data |-> Undefined])
    /\ resp' = Call("checkJoinRateLimit", c, code, expectedType, NoData)
    /\ emitted' = <<>>
    /\ UNCHANGED <<localVars, chat, channels, conn, now, transferVars, nodes, wire>>

\* joinRoom from `if (!room) return { error: 'Room not found' }` on, for the
\* room the call found or loaded; rm is this.rooms of the process by then
joinRoom_enter(c, t, rm) ==
    LET p            == processOf[c]
        code         == joins[c].code
        expectedType == joins[c].expectedType
    IN
    /\ IF expectedType # NoType /\ rm[code].type # expectedType
       THEN /\ resp' = Call("joinRoom", c, code, expectedType, Err("Wrong room type"))
            /\ emitted' = <<>>
            /\ nodes' = [nodes EXCEPT ![p].rooms = rm]
            /\ UNCHANGED <<wire, channels, now>>
       ELSE LET room   == rm[code]
                users  == joinedUsers(room, c)
                joined == [rm EXCEPT ![code].users = users]
                ch     == IF conn[c] = "open" THEN Join(channels, c, code)
                          ELSE channels
            IN  /\ nodes' = [nodes EXCEPT ![p] =
                               [rooms |-> joined,
                                roomLastActivity |->
                                  Put(nodes[p].roomLastActivity, code, t)]]
                /\ wire' = [wire EXCEPT ![p] = syncRoomToRedis(wire[p], joined, code)]
                /\ channels' = ch
                /\ now' = t
                /\ emitted' = MemberEvents("userJoined", ServerTo(ch, code), c, room, users)
                /\ resp' = Call("joinRoom", c, code, expectedType,
                                [success |-> TRUE, messages |-> MessagesOf(room),
                                 totalUsers |-> Len(users), roomType |-> room.type])
    /\ joins' = Delete(joins, c)
    /\ UNCHANGED redis

\* joinRoom from the rate-limit verdict to its end or, when this.rooms has no
\* entry for the code, to the await of loadRoomFromRedis: the get has run in
\* Redis, after everything the process sent before, and its reply is under way
joinRoom_redis(c, t) ==
    /\ c \in DOMAIN joins /\ joins[c].stage = "limit" /\ t >= now
    /\ LET p            == processOf[c]
           code         == joins[c].code
           expectedType == joins[c].expectedType
           rateLimit    == checkJoinRateLimit(joins[c].count)
           local        == nodes[p].rooms
       IN  IF ~rateLimit.allowed
           THEN /\ resp' = Call("joinRoom", c, code, expectedType, Err(rateLimit.error))
                /\ emitted' = <<>>
                /\ joins' = Delete(joins, c)
                /\ UNCHANGED <<nodes, wire, channels, now, redis>>
           ELSE IF code \in DOMAIN local
           THEN joinRoom_enter(c, t, local)
           ELSE /\ wire[p] = <<>>
                /\ joins' = [joins EXCEPT ![c].stage = "load",
                                          ![c].data = getRoom(redis, code, now)]
                /\ resp' = Call("loadRoomFromRedis", c, code, expectedType, NoData)
                /\ emitted' = <<>>
                /\ UNCHANGED <<nodes, wire, channels, now, redis>>
    /\ UNCHANGED <<localVars, chat, conn, transferVars>>

\* joinRoom from the reply of loadRoomFromRedis's get on
joinRoom_loaded(c, t) ==
    /\ c \in DOMAIN joins /\ joins[c].stage = "load" /\ t >= now
    /\ LET p    == processOf[c]
           code == joins[c].code
           data == joins[c].data
       IN  IF ~IsDefined(data)
           THEN /\ resp' = Call("joinRoom", c, code, joins[c].expectedType,
                                Err("Room not found"))
                /\ emitted' = <<>>
                /\ joins' = Delete(joins, c)
                /\ UNCHANGED <<nodes, wire, channels, now, redis>>
           ELSE joinRoom_enter(c, t, loadRoomFromRedis(nodes[p].rooms, code, data))
    /\ UNCHANGED <<localVars, chat, conn, transferVars>>

\* checkJoinRateLimit of a joinRoom call in which a store call fails and
\* redisService catches the error: a failed incr returns 0 and leaves the key
\* as it was; a failed expire, sent when incr returned 1, returns false and
\* leaves the new key without a TTL
joinRoom_fault(c, code, expectedType, call) ==
    LET p     == processOf[c]
        count == IF call = "incr" THEN 0 ELSE incrCount(redis, c, now)
    IN
    /\ conn[c] = "open" /\ c \notin DOMAIN joins /\ wire[p] = <<>>
    /\ call = "expire" => count = 1
    /\ redis' = IF call = "incr" THEN redis
                ELSE [redis EXCEPT !.counters =
                        Put(redis.counters, c,
                            [value |-> count, expiresAt |-> Undefined])]
    /\ joins' = Put(joins, c, [code |-> code, expectedType |-> expectedType,
                               count |-> count,
                               stage |-> "limit", data |-> Undefined])
    /\ resp' = Call("checkJoinRateLimit", c, code, expectedType, NoData)
    /\ emitted' = <<>>
    /\ UNCHANGED <<localVars, chat, channels, conn, now, transferVars, nodes, wire>>

\* joinRoom up to the await of loadRoomFromRedis when the get fails:
\* redisService.get catches the error and returns null
loadRoomFromRedis_fault(c) ==
    /\ c \in DOMAIN joins /\ joins[c].stage = "limit"
    /\ checkJoinRateLimit(joins[c].count).allowed
    /\ joins[c].code \notin DOMAIN nodes[processOf[c]].rooms
    /\ joins' = [joins EXCEPT ![c].stage = "load", ![c].data = Undefined]
    /\ resp' = Call("loadRoomFromRedis", c, joins[c].code, joins[c].expectedType, NoData)
    /\ emitted' = <<>>
    /\ UNCHANGED <<localVars, chat, channels, conn, now, transferVars, nodes,
                   wire, redis>>

\* the oldest command process p has in flight fails: redisService.set and
\* redisService.delete catch the error and return false
redisFail(p) ==
    /\ wire[p] # <<>>
    /\ wire' = [wire EXCEPT ![p] = Tail(wire[p])]
    /\ resp' = Call("redisFail", "", <<>>, "", NoData)
    /\ emitted' = <<>>
    /\ UNCHANGED <<localVars, chat, channels, conn, now, transferVars, nodes,
                   joins, redis>>

storedMessages_redis(messages, message) ==
    LET pushed == Append(messages, message)
    IN  IF Len(pushed) > MAX_MESSAGES_PER_ROOM_redis
        THEN SliceLast(pushed, MAX_MESSAGES_PER_ROOM_redis) ELSE pushed

handleSendMessage_redis(c, code, text, t) ==
    LET p  == processOf[c]
        rm == nodes[p].rooms
    IN
    /\ conn[c] = "open" /\ t >= now
    /\ IF code \notin DOMAIN rm \/ ~Includes(rm[code].users, c)
       THEN /\ resp' = Call("sendMessage", c, code, text, Err("Not in room"))
            /\ emitted' = <<>>
            /\ UNCHANGED <<nodes, wire, now>>
       ELSE IF Len(rm[code].users) < 2
       THEN /\ resp' = Call("sendMessage", c, code, text, Err("Need at least 2 users to chat"))
            /\ emitted' = <<>>
            /\ UNCHANGED <<nodes, wire, now>>
       ELSE LET validation == validateAndSanitizeMessage(text) IN
         IF ~validation.isValid
         THEN /\ resp' = Call("sendMessage", c, code, text, Err(validation.error))
              /\ emitted' = <<>>
              /\ UNCHANGED <<nodes, wire, now>>
         ELSE LET room    == rm[code]
                  message == [sender |-> c, text |-> validation.sanitizedText,
                              timestamp |-> t]
                  stored  == IF IsDefined(room.messages)
                             THEN [rm EXCEPT ![code].messages =
                                     Defined(storedMessages_redis(ValueOf(room.messages),
                                                                  message))]
                             ELSE rm
              IN  /\ nodes' = [nodes EXCEPT ![p].rooms = stored]
                  /\ wire' = [wire EXCEPT ![p] = syncRoomToRedis(wire[p], stored, code)]
                  /\ now' = t
                  /\ emitted' = <<Event("newMessage", ServerTo(channels, code), message)>>
                  /\ resp' = Call("sendMessage", c, code, text, [success |-> TRUE])
    /\ UNCHANGED <<localVars, chat, channels, conn, transferVars, redis, joins>>

\* leaveRoom(client, code) behind leaveRoom and leaveVideoRoom
handleLeaveRoom_redis(c, code) ==
    LET p  == processOf[c]
        rm == nodes[p].rooms
    IN
    /\ conn[c] = "open"
    /\ IF code \in DOMAIN rm /\ Includes(rm[code].users, c)
       THEN LET out == removeMember(rm, channels, c, code)
            IN  /\ nodes' = [nodes EXCEPT ![p].rooms = out.rooms]
                /\ emitted' = out.emitted
       ELSE /\ nodes' = nodes
            /\ emitted' = <<>>
    /\ resp' = Call("leaveRoom", c, code, "", [success |-> TRUE])
    /\ UNCHANGED <<localVars, chat, channels, conn, now, transferVars, redis, wire, joins>>

handleEndCall_redis(c, code) ==
    LET p == processOf[c] IN
    /\ conn[c] = "open"
    /\ emitted' = <<Event("callEnded", ServerTo(channels, code), [endedBy |-> c])>>
                  \o destroyEvents(channels, code)
    /\ nodes' = [nodes EXCEPT ![p].rooms = destroyRoom(nodes[p].rooms, code)]
    /\ resp' = Call("endCall", c, code, "", [success |-> TRUE])
    /\ UNCHANGED <<localVars, chat, channels, conn, now, transferVars, redis, wire, joins>>

handleDisconnect_redis(c) ==
    LET p  == processOf[c]
        rm == nodes[p].rooms
    IN
    /\ conn[c] = "open"
    /\ conn' = [conn EXCEPT ![c] = "closed"]
    /\ fileTransfers' = withoutTransfersOf(c)
    /\ channels' = LeaveAll(channels, c)
    /\ LET out == disconnectFrom(SortedCodes(DOMAIN rm), rm, LeaveAll(channels, c), c)
       IN  /\ nodes' = [nodes EXCEPT ![p].rooms = out.rooms]
           /\ emitted' = out.emitted
    /\ resp' = Call("disconnect", c, <<>>, "", NoData)
    /\ UNCHANGED <<rooms, roomLastActivity, ipTracking, now, transferVars,
                   redis, wire, joins, chat>>

\* whether cleanupInactiveRooms of a process removes the room at Date.now() = t
isInactiveAt(node, code, t) ==
    LET lastActivity == IF code \in DOMAIN node.roomLastActivity
                        THEN node.roomLastActivity[code] ELSE 0
    IN  Len(node.rooms[code].users) = 0 \/ t - lastActivity > ROOM_INACTIVITY_TIMEOUT

RECURSIVE deleteCommands(_)
\* the `void this.redisService.delete(...)` calls of one sweep, in loop order
deleteCommands(codes) ==
    IF codes = <<>> THEN <<>>
    ELSE <<[cmd |-> "del", code |-> Head(codes)]>> \o deleteCommands(Tail(codes))

removedBySweep_all(node, t) == DOMAIN node.rooms

\* the codes the sweep of a process collects in roomsToRemove
removedBySweep(node, t) == {code \in DOMAIN node.rooms : isInactiveAt(node, code, t)}

cleanupInactiveRooms_redis(p, t) ==
    /\ t >= now
    /\ LET node    == nodes[p]
           removed == removedBySweep(node, t)
       IN  /\ nodes' = [nodes EXCEPT ![p] =
                  [rooms |-> [code \in DOMAIN node.rooms \ removed |-> node.rooms[code]],
                   roomLastActivity |->
                     [code \in DOMAIN node.roomLastActivity \ removed |->
                        node.roomLastActivity[code]]]]
           /\ wire' = [wire EXCEPT ![p] = wire[p] \o deleteCommands(SortedCodes(removed))]
    /\ now' = t
    /\ resp' = Call("cleanupInactiveRooms", "", <<>>, "", NoData)
    /\ emitted' = <<>>
    /\ UNCHANGED <<localVars, chat, channels, conn, transferVars, redis, joins>>

----------------------------------------------------------------------------
(* SpecCluster: two gateway processes and the store. Socket a is connected  *)
(* to process A and socket b to process B; one text room is created, on A.  *)

MaxJoins == 1        \* SpecCluster: joinRoom calls of one socket
MaxWire == 2         \* SpecCluster: store commands one process has in flight

\* the code of the room SpecCluster creates, and one no room has
RoomCode == CodeOfDraw(0)
ClusterCodes == {RoomCode, CodeOfDraw(899999)}

CanCall(c) == incrCount(redis, c, now) <= MaxJoins
CanSync(c) == Len(wire[processOf[c]]) < MaxWire

NextCluster ==
    \/ /\ redis.rooms = <<>> /\ nodes["A"].rooms = <<>> /\ wire["A"] = <<>>
       /\ createRoom_redis("a", "text", now)
       /\ RoomCode \in DOMAIN nodes'["A"].rooms
    \/ \E c \in Pair, code \in ClusterCodes :
         CanCall(c) /\ joinRoom_await(c, code, NoType)
    \/ \E c \in Pair : CanSync(c) /\ joinRoom_redis(c, now)
    \/ \E c \in Pair : CanSync(c) /\ joinRoom_loaded(c, now)
    \/ \E c \in Pair :
         /\ CanSync(c)
         /\ RoomCode \in DOMAIN nodes[processOf[c]].rooms
            => MessagesOf(nodes[processOf[c]].rooms[RoomCode]) = <<>>
         /\ handleSendMessage_redis(c, RoomCode, ChatText, now)
    \/ \E c \in Pair : handleLeaveRoom_redis(c, RoomCode)
    \/ \E c \in Pair : handleEndCall_redis(c, RoomCode)
    \/ \E c \in Pair : handleDisconnect_redis(c)
    \/ \E p \in Procs : redisApply(p)

SpecCluster == Init /\ [][NextCluster]_vars

\* socket c's joinRoom call, past the rate limit, reads the store in this step
JoinReads(c) ==
    /\ c \in DOMAIN joins /\ joins[c].stage = "limit"
    /\ c \in DOMAIN joins' /\ joins'[c].stage = "load"

\* socket c's joinRoom call returns in this step with the rate limit passed
JoinResumes(c) ==
    /\ c \in DOMAIN joins /\ c \notin DOMAIN joins'
    /\ resp'.op = "joinRoom"
    /\ joins[c].count <= MAX_JOIN_ATTEMPTS

\* the snapshot the store holds under room:<code>, if any
Snapshot(code) ==
    IF code \in DOMAIN redis.rooms /\ live(redis.rooms[code], now)
    THEN Defined(redis.rooms[code].value) ELSE Undefined

\* C26: a joinRoom for a code the socket's process does not hold reads the
\* snapshot in the store before it answers: when there is one, the process
\* installs it in its rooms, adds the socket to its members and answers with
\* success; the answer is "Room not found" exactly when the process did not
\* hold the code and the store had no snapshot of it.
C26_JoinReadsThrough ==
    [][\A c \in Pair :
         /\ JoinReads(c) =>
              /\ joins[c].code \notin DOMAIN nodes[processOf[c]].rooms
              /\ joins'[c].data = Snapshot(joins[c].code)
              /\ nodes' = nodes
         /\ JoinResumes(c) =>
              LET p    == processOf[c]
                  code == joins[c].code
                  data == joins[c].data
              IN  /\ (joins[c].stage = "load" /\ IsDefined(data)) =>
                       /\ Succeeded(resp')
                       /\ code \in DOMAIN nodes'[p].rooms
                       /\ nodes'[p].rooms[code] =
                            [parse(ValueOf(data)) EXCEPT
                               !.users = joinedUsers(parse(ValueOf(data)), c)]
                       /\ resp'.ret.messages = MessagesOf(parse(ValueOf(data)))
                  /\ (resp'.ret = Err("Room not found")) <=>
                       (joins[c].stage = "load" /\ ~IsDefined(data))
      ]_vars

\* b joined through process B the room a created on process A
C26_Witness ==
    /\ resp.op = "joinRoom" /\ Succeeded(resp)
    /\ RoomCode \in DOMAIN nodes["B"].rooms
    /\ nodes["B"].rooms[RoomCode].creator = "a"
    /\ nodes["B"].rooms[RoomCode].users = <<"a", "b">>

\* C27: every operation that changes a room of a process sends the store a
\* write of the room's full new state under the room's code, so that the
\* snapshot equals the room of the process once the writes have run.
C27_ChangesAreWritten ==
    [][\A p \in Procs : \A code \in DOMAIN nodes[p].rooms \cap DOMAIN nodes'[p].rooms :
         nodes'[p].rooms[code] # nodes[p].rooms[code] =>
           wire'[p] = Append(wire[p], [cmd |-> "set", code |-> code,
                                       value |-> stringify(nodes'[p].rooms[code])])
      ]_vars

\* C28: a destroyed room has no snapshot left: a joinRoom for a code that no
\* process holds finds nothing in the store, is answered with "Room not
\* found" and brings no room back.
C28_DestroyedRoomStaysGone ==
    [][\A c \in Pair :
         /\ (/\ JoinReads(c)
             /\ \A p \in Procs : joins[c].code \notin DOMAIN nodes[p].rooms) =>
              ~IsDefined(joins'[c].data)
         /\ (/\ JoinResumes(c) /\ joins[c].stage = "load"
             /\ \A p \in Procs : joins[c].code \notin DOMAIN nodes[p].rooms) =>
              /\ resp'.ret = Err("Room not found")
              /\ \A p \in Procs : joins[c].code \notin DOMAIN nodes'[p].rooms
      ]_vars

\* C29: the processes agree on a room's members: when some process holds the
\* room with two or more members, a sendMessage of one of these members is not
\* refused for want of a second member by the member's own process.
C29_MembersSeenByEveryProcess ==
    [][\A c \in Pair :
         (/\ resp'.op = "sendMessage"
          /\ handleSendMessage_redis(c, RoomCode, ChatText, now)
          /\ RoomCode \in DOMAIN nodes[processOf[c]].rooms
          /\ Includes(nodes[processOf[c]].rooms[RoomCode].users, c)
          /\ \E q \in Procs :
               /\ RoomCode \in DOMAIN nodes[q].rooms
               /\ Includes(nodes[q].rooms[RoomCode].users, c)
               /\ Len(nodes[q].rooms[RoomCode].users) >= 2) =>
           resp'.ret # Err("Need at least 2 users to chat")
      ]_vars

----------------------------------------------------------------------------
(* SpecRace: sockets a and c, both on process A, join the room b created on *)
(* process B; their calls interleave at every await of joinRoom             *)

Locals == {c \in Clients : processOf[c] = "A"}

NextRace ==
    \/ /\ redis.rooms = <<>> /\ nodes["B"].rooms = <<>> /\ wire["B"] = <<>>
       /\ createRoom_redis("b", "text", now)
       /\ RoomCode \in DOMAIN nodes'["B"].rooms
    \/ \E c \in Locals : CanCall(c) /\ joinRoom_await(c, RoomCode, NoType)
    \/ \E c \in Locals : CanSync(c) /\ joinRoom_redis(c, now)
    \/ \E c \in Locals : CanSync(c) /\ joinRoom_loaded(c, now)
    \/ \E c \in Locals : handleLeaveRoom_redis(c, RoomCode)
    \/ \E p \in Procs : redisApply(p)

SpecRace == Init /\ [][NextRace]_vars

\* C33: whatever the interleaving of two joinRoom calls of one process at
\* their awaits, a call that succeeds leaves every socket that was a member
\* of the process's room a member of it: two calls that both succeed end with
\* both sockets in the member list of the one room the process holds.
C33_ConcurrentJoinsBothMembers ==
    [][\A c \in Locals :
         (/\ c \in DOMAIN joins /\ c \notin DOMAIN joins'
          /\ resp'.op = "joinRoom" /\ Succeeded(resp')
          /\ joins[c].code \in DOMAIN nodes["A"].rooms) =>
           /\ joins[c].code \in DOMAIN nodes'["A"].rooms
           /\ \A d \in Locals :
                Includes(nodes["A"].rooms[joins[c].code].users, d) =>
                  Includes(nodes'["A"].rooms[joins[c].code].users, d)
      ]_vars

----------------------------------------------------------------------------
(* SpecLimit: socket b, on process B, joins and leaves the room a created   *)
(* on process A over and over, within one counter window and past its end   *)

MaxAttempts == 7     \* SpecLimit: the highest count a join counter reaches
MaxWindows == 1      \* SpecLimit: counter windows the clock advances by

CanAttempt(c) == incrCount(redis, c, now) <= MaxAttempts

\* Date.now() when a joinRoom call resumes
ResumeTimes == {t \in {now, now + JOIN_WINDOW} : t <= MaxWindows * JOIN_WINDOW}

NextLimit ==
    \/ /\ redis.rooms = <<>> /\ nodes["A"].rooms = <<>> /\ wire["A"] = <<>>
       /\ createRoom_redis("a", "text", now)
       /\ RoomCode \in DOMAIN nodes'["A"].rooms
    \/ \E code \in ClusterCodes : CanAttempt("b") /\ joinRoom_await("b", code, NoType)
    \/ \E t \in ResumeTimes : joinRoom_redis("b", t)
    \/ \E t \in ResumeTimes : joinRoom_loaded("b", t)
    \/ handleLeaveRoom_redis("b", RoomCode)
    \/ \E p \in Procs : redisApply(p)

SpecLimit == Init /\ [][NextLimit]_vars

\* C30: a joinRoom call is granted only after its rate-limit check: the count
\* the store returned for the socket's window is what the call is judged by,
\* and a call whose count exceeds MAX_JOIN_ATTEMPTS (5) is answered with the
\* rate-limit error and adds the socket to no room and no channel.
C30_RateLimitBeforeJoin ==
    [][/\ \A c \in Clients :
            (c \notin DOMAIN joins /\ c \in DOMAIN joins') =>
              /\ c \in DOMAIN redis'.counters
              /\ joins'[c].count = redis'.counters[c].value
              /\ UNCHANGED <<nodes, channels>>
       /\ \A c \in Clients :
            (c \in DOMAIN joins /\ c \notin DOMAIN joins'
               /\ joins[c].count > MAX_JOIN_ATTEMPTS) =>
              /\ resp'.ret = TooManyJoins
              /\ UNCHANGED <<nodes, channels, wire>>
       /\ (resp'.op = "joinRoom" /\ Succeeded(resp')) =>
            \E c \in DOMAIN joins \ DOMAIN joins' : joins[c].count <= MAX_JOIN_ATTEMPTS
      ]_vars

\* b's sixth call within the window was refused while b was not a member
C30_Witness ==
    /\ resp = Call("joinRoom", "b", RoomCode, NoType, TooManyJoins)
    /\ redis.counters["b"].value = MAX_JOIN_ATTEMPTS + 1
    /\ RoomCode \in DOMAIN nodes["B"].rooms
    /\ ~Includes(nodes["B"].rooms[RoomCode].users, "b")

----------------------------------------------------------------------------
(* SpecFault: socket c joins and leaves, over and over, the room a created  *)
(* on their process A while store calls fail now and then                   *)

StoreCalls == {"incr", "expire"}

NextFault ==
    \/ /\ redis.rooms = <<>> /\ nodes["A"].rooms = <<>> /\ wire["A"] = <<>>
       /\ createRoom_redis("a", "text", now)
       /\ RoomCode \in DOMAIN nodes'["A"].rooms
    \/ CanAttempt("c") /\ joinRoom_await("c", RoomCode, NoType)
    \/ \E call \in StoreCalls :
         CanAttempt("c") /\ joinRoom_fault("c", RoomCode, NoType, call)
    \/ \E t \in ResumeTimes : wire["A"] = <<>> /\ joinRoom_redis("c", t)
    \/ loadRoomFromRedis_fault("c")
    \/ \E t \in ResumeTimes : joinRoom_loaded("c", t)
    \/ handleLeaveRoom_redis("c", RoomCode)
    \/ redisApply("A")
    \/ redisFail("A")

SpecFault == Init /\ [][NextFault]_vars

\* C31: whatever store calls fail, every join counter the store holds with a
\* positive count has a TTL that ends at most JOIN_WINDOW (60 s) from now, so
\* a socket that was refused is let in again within the window.
C31_EveryCounterExpires ==
    \A c \in DOMAIN redis.counters :
      (redis.counters[c].value > 0 /\ live(redis.counters[c], now)) =>
        /\ IsDefined(redis.counters[c].expiresAt)
        /\ ValueOf(redis.counters[c].expiresAt) - now <= JOIN_WINDOW

\* what joinRoom answers socket c for the room its process holds when
\* clustering is off
LocalJoin(c, code) ==
    LET room == nodes[processOf[c]].rooms[code]
    IN  [success |-> TRUE, messages |-> MessagesOf(room),
         totalUsers |-> Len(joinedUsers(room, c)), roomType |-> room.type]

\* C32: store failures degrade to local-only behaviour: a joinRoom for a room
\* the socket's process holds is answered as with clustering off and changes
\* the room table as with clustering off, unless the store counted more than
\* MAX_JOIN_ATTEMPTS joins in a window it still times; no store failure turns
\* into an {error} answer, and a failed store call changes no room table.
C32_StoreFailuresDegradeToLocal ==
    [][/\ \A c \in Clients :
            (/\ c \in DOMAIN joins /\ c \notin DOMAIN joins'
             /\ resp'.op = "joinRoom" /\ joins[c].stage = "limit"
             /\ joins[c].code \in DOMAIN nodes[processOf[c]].rooms) =>
              LET p    == processOf[c]
                  code == joins[c].code
              IN  \/ /\ resp'.ret = LocalJoin(c, code)
                     /\ nodes'[p].rooms =
                          [nodes[p].rooms EXCEPT
                             ![code].users = joinedUsers(nodes[p].rooms[code], c)]
                  \/ /\ resp'.ret = TooManyJoins
                     /\ nodes' = nodes
                     /\ c \in DOMAIN redis.counters
                     /\ redis.counters[c].value > MAX_JOIN_ATTEMPTS
                     /\ IsDefined(redis.counters[c].expiresAt)
       /\ resp'.op = "redisFail" => (nodes' = nodes /\ redis' = redis)
       /\ (resp'.op \in {"checkJoinRateLimit", "loadRoomFromRedis"}) => nodes' = nodes
      ]_vars

----------------------------------------------------------------------------
(* SpecExpire: rooms of different ages on process A, one of them with two   *)
(* members and a message, and the inactivity sweep of either process        *)

MaxHalfHours == 1    \* SpecExpire: inactivity timeouts the clock advances by

\* Date.now() at the requests and sweeps of SpecExpire
AgeTimes == {t \in {now, now + ROOM_INACTIVITY_TIMEOUT} :
               t <= MaxHalfHours * ROOM_INACTIVITY_TIMEOUT + MaxTicks}

\* the store has run every command sent to it
Drained == \A p \in Procs : wire[p] = <<>>

NextExpire ==
    \/ \E t \in Ticks : Drained /\ createRoom_redis("a", "text", t)
    \/ CanCall("c") /\ joinRoom_await("c", RoomCode, NoType)
    \/ Drained /\ joinRoom_redis("c", now)
    \/ Drained /\ joinRoom_loaded("c", now)
    \/ /\ Drained
       /\ RoomCode \in DOMAIN nodes["A"].rooms
            => MessagesOf(nodes["A"].rooms[RoomCode]) = <<>>
       /\ handleSendMessage_redis("a", RoomCode, ChatText, now)
    \/ \E p \in Procs, t \in AgeTimes : Drained /\ cleanupInactiveRooms_redis(p, t)
    \/ \E p \in Procs : redisApply(p)

SpecExpire == Init /\ [][NextExpire]_vars

\* the claim's condition for removal: no member left, or the last recorded
\* activity (none recorded counts as time 0) more than the timeout before t
Expired(node, code, t) ==
    \/ node.rooms[code].users = <<>>
    \/ t - (IF code \in DOMAIN node.roomLastActivity
            THEN node.roomLastActivity[code] ELSE 0) > ROOM_INACTIVITY_TIMEOUT

\* C24: a sweep of a process removes exactly its rooms that are empty or whose
\* last activity is more than 30 minutes old, together with their activity
\* entries, and sends the store a delete of each one's snapshot; every other
\* room keeps its members and messages, and every other activity entry and
\* the other process's tables are as before.
C24_SweepRemovesExactlyInactive ==
    [][\A p \in Procs :
         (resp'.op = "cleanupInactiveRooms" /\ cleanupInactiveRooms_redis(p, now')) =>
           LET node == nodes[p]
               gone == {code \in DOMAIN node.rooms : Expired(node, code, now')}
               sent == SubSeq(wire'[p], Len(wire[p]) + 1, Len(wire'[p]))
           IN  /\ DOMAIN nodes'[p].rooms = DOMAIN node.rooms \ gone
               /\ \A code \in DOMAIN nodes'[p].rooms :
                    nodes'[p].rooms[code] = node.rooms[code]
               /\ DOMAIN nodes'[p].roomLastActivity = DOMAIN node.roomLastActivity \ gone
               /\ \A code \in DOMAIN nodes'[p].roomLastActivity :
                    nodes'[p].roomLastActivity[code] = node.roomLastActivity[code]
               /\ Len(sent) = Cardinality(gone)
               /\ {sent[k] : k \in DOMAIN sent} = {[cmd |-> "del", code |-> code] : code \in gone}
               /\ \A q \in Procs \ {p} : nodes'[q] = nodes[q]
               /\ UNCHANGED <<redis, channels>>
      ]_vars

\* a sweep of process A has just removed the older room and kept the younger
\* one, which has two members and a message
C24_Witness ==
    /\ resp.op = "cleanupInactiveRooms"
    /\ Cardinality(DOMAIN nodes["A"].rooms) = 1
    /\ \E code \in DOMAIN nodes["A"].rooms :
         /\ Len(nodes["A"].rooms[code].users) = 2
         /\ Len(MessagesOf(nodes["A"].rooms[code])) = 1
    /\ \E k \in DOMAIN wire["A"] : wire["A"][k].cmd = "del"

----------------------------------------------------------------------------
(* Claims about the current gateway checked on the specifications above     *)

\* the names of the events a list of emissions holds
EventNames(events) == {events[k].event : k \in DOMAIN events}

\* C34: leaveRoom (and leaveVoiceRoom) by a socket that is not a member of
\* the named room, or for a code without a room, returns success, leaves
\* this.rooms as it was and emits no userLeft, userCount or userDisconnected.
C34_LeaveByNonMemberIsNoOp ==
    [][\A c \in Pair, code \in RequestCodes :
         (/\ handleLeaveRoom(c, code) \/ handleLeaveVoiceRoom(c, code)
          /\ code \in DOMAIN rooms => ~Includes(rooms[code].users, c)) =>
           /\ resp'.ret = [success |-> TRUE]
           /\ rooms' = rooms
           /\ EventNames(emitted') \cap {"userLeft", "userCount", "userDisconnected"} = {}
      ]_vars

\* a leaveRoom that did nothing while a room with one member exists
C34_Witness ==
    /\ resp.op = "leaveRoom"
    /\ emitted = <<>>
    /\ \E code \in DOMAIN rooms : Len(rooms[code].users) = 1

\* C36: only a member can bring a room down: an endCall by a socket that is
\* not a member of the named room leaves this.rooms as it was and emits no
\* callEnded.
C36_EndCallByMemberOnly ==
    [][\A c \in Pair, code \in RequestCodes :
         (/\ handleEndCall(c, code)
          /\ code \in DOMAIN rooms /\ ~Includes(rooms[code].users, c)) =>
           /\ rooms' = rooms
           /\ "callEnded" \notin EventNames(emitted')
      ]_vars

\* C38: every code with an entry in this.roomLastActivity is the code of a
\* live room, so the table is no larger than this.rooms.
C38_ActivityOnlyForLiveRooms ==
    /\ DOMAIN roomLastActivity \subseteq DOMAIN rooms
    /\ Cardinality(DOMAIN roomLastActivity) <= Cardinality(DOMAIN rooms)

\* C39: every transfer record has 0 <= receivedChunks <= totalChunks, and a
\* fileChunk is relayed only while the transfer's receiver is a member of a
\* room together with its sender.
C39_ChunksWithinTotalToMember ==
    /\ [](\A id \in DOMAIN fileTransfers :
            /\ 0 <= fileTransfers[id].receivedChunks
            /\ fileTransfers[id].receivedChunks <= fileTransfers[id].totalChunks)
    /\ [][(resp'.op = "fileChunk" /\ Succeeded(resp')) =>
            \A id \in DOMAIN fileTransfers \cap DOMAIN fileTransfers' :
              fileTransfers'[id].receivedChunks # fileTransfers[id].receivedChunks =>
                \E code \in DOMAIN rooms :
                  /\ Includes(rooms[code].users, fileTransfers[id].receiver)
                  /\ Includes(rooms[code].users, fileTransfers[id].sender)
         ]_vars

\* C35: the sockets subscribed to the broadcast channel of a live room's code
\* are exactly the members of that room, so a socket that left the room, or
\* was in a former room of the same code, gets none of its broadcasts.
C35_ChannelEqualsMembers ==
    \A code \in DOMAIN rooms : ServerTo(channels, code) = Range(rooms[code].users)

----------------------------------------------------------------------------
(* SpecIdle: a video room of the current gateway whose two members stay     *)
(* connected and signal or send file chunks, and the room sweep             *)

\* Date.now() when the room sweep runs
IdleTimes == {t \in {now, now + ROOM_INACTIVITY_TIMEOUT + 1} :
                t <= MaxHalfHours * (ROOM_INACTIVITY_TIMEOUT + 1)}

\* socket c is a member of the room of this code
IsMember(c, code) == code \in DOMAIN rooms /\ Includes(rooms[code].users, c)

NextIdle ==
    \/ roomLastActivity = <<>> /\ createRoom("a", "video", now)
    \/ \E code \in RequestCodes : joinRoom("b", code, "video", now)
    \/ \E c \in Pair, code \in RequestCodes, offer \in Payloads :
         IsMember(c, code) /\ handleOffer(c, code, offer)
    \/ \E c \in Pair, code \in RequestCodes, answer \in Payloads :
         IsMember(c, code) /\ handleAnswer(c, code, answer)
    \/ \E c \in Pair, code \in RequestCodes, candidate \in Payloads :
         IsMember(c, code) /\ handleIceCandidate(c, code, candidate)
    \/ \E c \in Pair, code \in RequestCodes, trackKind \in TrackKinds :
         IsMember(c, code) /\ handleTrackUpdate(c, code, trackKind, TRUE)
    \/ \E c \in Pair, code \in RequestCodes :
         CanSend /\ handleSendFile(c, code, TwoChunkFile, now)
    \/ \E c \in Pair, id \in TransferIds : CanChunk(id) /\ handleFileChunk(c, id, 0)
    \/ completeTransfer
    \/ \E t \in IdleTimes : cleanupInactiveRooms(t)

SpecIdle == Init /\ [][NextIdle]_vars

\* C37: a room whose members are connected and have just exchanged an offer,
\* answer, ice-candidate, trackUpdate or fileChunk is not removed by the room
\* sweep that runs next, however late that is.
C37_SignallingKeepsRoomAlive ==
    [][(/\ resp.op \in SignalOps \cup {"fileChunk"}
        /\ Succeeded(resp)
        /\ resp'.op = "cleanupInactiveRooms") =>
          /\ DOMAIN rooms' = DOMAIN rooms
          /\ \A code \in DOMAIN rooms : rooms'[code] = rooms[code]
      ]_vars

----------------------------------------------------------------------------
(* src/src/chat.gateway.ts: the legacy two-party ChatGateway. chat holds    *)
(* temporaryRooms (code -> TempRoom), the pending setTimeout callbacks      *)
(* (handle -> the code it will destroy and the time it is due) and the      *)
(* number of handles setTimeout has returned. A callback runs when it is    *)
(* due: no handler observes a time later than a callback still pending.     *)

ROOM_EXPIRY_MS == 20 * 60 * 1000

\* no pending callback is due before time t
Undue(t) == \A h \in DOMAIN chat.timeouts : t <= chat.timeouts[h].due

\* clearTimeout(handle)
clearTimeout_leak(timeouts, handle) == timeouts

clearTimeout(timeouts, handle) == Delete(timeouts, handle)

\* destroyRoom(code): the gateway's state after it, and the broadcast
destroyRoom_chat(state, code) ==
    LET rm == state.temporaryRooms
    IN  [state EXCEPT
           !.timeouts = IF code \in DOMAIN rm
                        THEN clearTimeout(state.timeouts, rm[code].timeout)
                        ELSE state.timeouts,
           !.temporaryRooms = Delete(rm, code)]

roomExpired(ch, code) == Event("roomExpired", ServerTo(ch, code), NoData)

\* handleCreateRoom at time t, the time its setTimeout counts from
handleCreateRoom_chat(c, t) ==
    /\ conn[c] = "open" /\ t >= now /\ Undue(t)
    /\ \E code \in generateCodeAt(chat.temporaryRooms) :
         LET handle == chat.handles + 1
         IN  /\ chat' = [temporaryRooms |->
                            Put(chat.temporaryRooms, code,
                                [users |-> <<c>>, messages |-> <<>>, timeout |-> handle]),
                         timeouts |->
                            Put(chat.timeouts, handle,
                                [code |-> code, due |-> t + ROOM_EXPIRY_MS]),
                         handles |-> handle]
             /\ channels' = Join(channels, c, code)
             /\ resp' = Call("createRoom", c, code, "", [code |-> code])
    /\ now' = t
    /\ emitted' = <<>>
    /\ UNCHANGED <<localVars, conn, transferVars, clusterVars>>

handleJoinRoom_chat(c, code) ==
    /\ conn[c] = "open"
    /\ IF code \notin DOMAIN chat.temporaryRooms
       THEN /\ resp' = Call("joinRoom", c, code, "", Err("Room not found"))
            /\ emitted' = <<>>
            /\ UNCHANGED <<chat, channels>>
       ELSE IF Len(chat.temporaryRooms[code].users) >= 2
       THEN /\ resp' = Call("joinRoom", c, code, "", Err("Room full"))
            /\ emitted' = <<>>
            /\ UNCHANGED <<chat, channels>>
       ELSE LET room == chat.temporaryRooms[code]
                ch   == Join(channels, c, code)
            IN  /\ chat' = [chat EXCEPT !.temporaryRooms[code].users = Append(room.users, c)]
                /\ channels' = ch
                /\ emitted' = <<Event("userJoined", ServerTo(ch, code), [userId |-> c])>>
                /\ resp' = Call("joinRoom", c, code, "",
                                [success |-> TRUE, messages |-> room.messages])
    /\ UNCHANGED <<localVars, conn, now, transferVars, clusterVars>>

handleSendMessage_chat(c, code, text, t) ==
    /\ conn[c] = "open" /\ t >= now /\ Undue(t)
    /\ IF code \notin DOMAIN chat.temporaryRooms
          \/ ~Includes(chat.temporaryRooms[code].users, c)
       THEN /\ resp' = Call("sendMessage", c, code, text, Err("Not in room"))
            /\ emitted' = <<>>
            /\ UNCHANGED <<chat, now>>
       ELSE LET message == [sender |-> c, text |-> text, timestamp |-> t]
            IN  /\ chat' = [chat EXCEPT !.temporaryRooms[code].messages =
                                           Append(@, message)]
                /\ now' = t
                /\ emitted' = <<Event("newMessage", ServerTo(channels, code), message)>>
                /\ resp' = Call("sendMessage", c, code, text, [success |-> TRUE])
    /\ UNCHANGED <<localVars, channels, conn, transferVars, clusterVars>>

RECURSIVE disconnectFrom_chat(_, _, _, _)
\* the loop of handleDisconnect over the codes still to visit
disconnectFrom_chat(codes, state, ch, c) ==
    IF codes = <<>> THEN [chat |-> state, emitted |-> <<>>]
    ELSE LET code  == Head(codes)
             room  == state.temporaryRooms[code]
             users == Without(room.users, c)
             left  == [state EXCEPT !.temporaryRooms[code].users = users]
             step  == IF ~Includes(room.users, c)
                      THEN [chat |-> state, emitted |-> <<>>]
                      ELSE IF Len(users) = 0
                      THEN [chat |-> destroyRoom_chat(left, code),
                            emitted |-> <<Event("userLeft", ServerTo(ch, code), [userId |-> c]),
                                          roomExpired(ch, code)>>]
                      ELSE [chat |-> left,
                            emitted |-> <<Event("userLeft", ServerTo(ch, code),
                                                [userId |-> c])>>]
             rest  == disconnectFrom_chat(Tail(codes), step.chat, ch, c)
         IN  [chat |-> rest.chat, emitted |-> step.emitted \o rest.emitted]

\* the socket disconnects: handleDisconnect runs for the gateway hook and for
\* the listener handleConnection registered; the second run finds the socket
\* in no room
handleDisconnect_chat(c) ==
    /\ conn[c] = "open"
    /\ conn' = [conn EXCEPT ![c] = "closed"]
    /\ channels' = LeaveAll(channels, c)
    /\ LET out == disconnectFrom_chat(SortedCodes(DOMAIN chat.temporaryRooms), chat,
                                      LeaveAll(channels, c), c)
       IN  /\ chat' = out.chat
           /\ emitted' = out.emitted
    /\ resp' = Call("disconnect", c, <<>>, "", NoData)
    /\ UNCHANGED <<localVars, now, transferVars, clusterVars>>

\* the callback of a pending setTimeout runs, at the time it is due
expireRoom_chat(handle) ==
    /\ handle \in DOMAIN chat.timeouts
    /\ chat.timeouts[handle].due >= now /\ Undue(chat.timeouts[handle].due)
    /\ LET code == chat.timeouts[handle].code
       IN  /\ chat' = destroyRoom_chat([chat EXCEPT !.timeouts = Delete(@, handle)], code)
           /\ emitted' = <<roomExpired(channels, code)>>
    /\ now' = chat.timeouts[handle].due
    /\ resp' = Call("roomExpiry", "", <<>>, "", NoData)
    /\ UNCHANGED <<localVars, channels, conn, transferVars, clusterVars>>

----------------------------------------------------------------------------
(* SpecLegacy: two sockets on the ChatGateway; rooms are created at most    *)
(* MaxHandles times, a millisecond apart at most, and run into their expiry *)

MaxHandles == 2      \* SpecLegacy: rooms the sockets create

CanChat(code) ==
    code \in DOMAIN chat.temporaryRooms
      => Len(chat.temporaryRooms[code].messages) < MaxStored

NextLegacy ==
    \/ \E c \in Pair, t \in Ticks : chat.handles < MaxHandles /\ handleCreateRoom_chat(c, t)
    \/ \E c \in Pair, code \in RequestCodes : handleJoinRoom_chat(c, code)
    \/ \E c \in Pair, code \in RequestCodes :
         CanChat(code) /\ handleSendMessage_chat(c, code, "hi", now)
    \/ \E c \in Pair : handleDisconnect_chat(c)
    \/ \E handle \in 1 .. MaxHandles : expireRoom_chat(handle)

SpecLegacy == Init /\ [][NextLegacy]_vars

\* the time by which the room of this code is to be gone: when the callback
\* its timeout handle names is due
Deadline(state, code) == state.timeouts[state.temporaryRooms[code].timeout].due

\* C40: a room of the ChatGateway never lists more than 2 users; every live
\* room has a pending expiry set for 20 minutes after its creation, which
\* does not move and which the clock never passes, so the room is gone by
\* then; every destruction emits roomExpired; and a room that an expiry
\* callback destroys is destroyed at its own deadline, never by the callback
\* of an earlier room of the same code.
C40_TwoPartyRoomsExpire ==
    /\ [](\A code \in DOMAIN chat.temporaryRooms :
            /\ Len(chat.temporaryRooms[code].users) <= 2
            /\ chat.temporaryRooms[code].timeout \in DOMAIN chat.timeouts
            /\ chat.timeouts[chat.temporaryRooms[code].timeout].code = code
            /\ now <= Deadline(chat, code))
    /\ [][\A code \in RequestCodes :
            LET was == code \in DOMAIN chat.temporaryRooms
                is  == code \in DOMAIN chat'.temporaryRooms
            IN  /\ (~was /\ is) => Deadline(chat', code) = now' + ROOM_EXPIRY_MS
                /\ (was /\ is) => Deadline(chat', code) = Deadline(chat, code)
                /\ (was /\ ~is) =>
                     /\ "roomExpired" \in EventNames(emitted')
                     /\ resp'.op = "roomExpiry" => now' = Deadline(chat, code)
         ]_vars

\* the second room expired a millisecond after the first one's deadline
C40_Witness ==
    /\ resp.op = "roomExpiry"
    /\ chat.handles = 2
    /\ chat.temporaryRooms = <<>> /\ chat.timeouts = <<>>
    /\ now = ROOM_EXPIRY_MS + 1

====
